---------------------------- MODULE Spec2Model ----------------------------
(***************************************************************************)
(* Smart-parking operator console: the notification provider               *)
(* (NotificationContext: addNotification, removeNotification,              *)
(* checkSlotChanges, checkViolationChanges), and the pollers that feed it  *)
(* (Home.loadDashboardData, the TopNav poll effect, the LiveFeed poll      *)
(* effect); the banners of a notification and of Home; the overlay of      *)
(* LiveFeed; the Calibration page (drawing, loading and saving the         *)
(* rectangles); the license plates as the views show them.                 *)
(*                                                                         *)
(* JavaScript values are modelled as follows.  A missing field or the      *)
(* value undefined is the string "undefined"; null is the record Null;     *)
(* an object is a record with kind = "obj".  Booleans that the backend     *)
(* sends are the tokens "true" / "false", so that a field can hold a       *)
(* boolean or undefined; values the code computes itself are BOOLEAN.      *)
(* A JavaScript object used as a map (insertion-ordered own keys) is a     *)
(* sequence of <<key, value>> pairs with pairwise different keys.          *)
(***************************************************************************)
EXTENDS Integers, Sequences, FiniteSets, TLC

VARIABLES
    notifications,     \* useState([])  : list of live notifications
    timers,            \* pending 10 s setTimeout callbacks, in firing order
    nextId,            \* stands for Date.now() + Math.random(): fresh ids
    activeViolations,  \* useState([])
    slotStatus,        \* useState({})
    prevSlots,         \* prevSlotsRef.current
    prevViolations,    \* prevViolationsRef.current
    lastOp,            \* what the last step did, and whether a diff threw in it
    backend,           \* what GET /slots and GET /dashboard/stats answer now
    homeMounted,       \* the Home page is mounted (its 5 s interval is set)
    homeAwaitStats,    \* loadDashboardData invocations awaiting getDashboardStats
    homeAwaitSlots,    \* ... awaiting getSlots, each holding its stats
    homePreviousStats, \* Home: useState(null), set by setPreviousStats
    homeBanners,       \* Home: its own notifications, useState([])
    tnInterval,        \* TopNav's 30 s interval is set
    tnIsPolling,       \* TopNav's isPolling state
    tnPolls,           \* TopNav interval callbacks awaiting Promise.all
    tnInits,           \* TopNav initialFetch calls awaiting Promise.all
    lfMounted,         \* LiveFeed's `mounted` flag (its 2 s interval is set)
    lfSlotCalls,       \* LiveFeed loadSlotStates calls awaiting getSlots
    lfViolationCalls,  \* LiveFeed loadViolations calls awaiting fetch
    lfCalibrationCalls,\* LiveFeed loadCalibration calls awaiting getCalibration
    lfCalibratedSlots, \* LiveFeed: useState(null)
    lfIllegalZones,    \* LiveFeed: useState(null)
    lfSlotStates,      \* LiveFeed: useState({})
    lfActiveViolations,\* LiveFeed: useState([])
    lfNatural,         \* LiveFeed: the img's naturalWidth, naturalHeight
    fadeTimers,        \* pending 300 ms timers of banners: onDismiss(id) to come
    calMounted,        \* Calibration: the page is mounted
    mode,              \* Calibration: useState('slots')
    rectangles,        \* Calibration: useState({slots: [], illegal: []})
    currentRect,       \* Calibration: useState(null)
    isDrawing,         \* Calibration: useState(false)
    imageComplete,     \* Calibration: imageRef.current.complete
    natural,           \* Calibration: the image's naturalWidth, naturalHeight
    loadPending,       \* Calibration: loadCalibration awaits getCalibration()
    isSaving,          \* Calibration: useState(false)
    saveCalls,         \* Calibration: calibrate() requests sent so far
    savesInFlight,     \* Calibration: calibrate() requests not yet settled
    saveSuccess,       \* Calibration: useState(false)
    successTimers      \* Calibration: pending 3 s timers of the success message

provider == <<notifications, timers, nextId, activeViolations, slotStatus,
              prevSlots, prevViolations>>

homeView == <<homePreviousStats, homeBanners>>

home == <<homeMounted, homeAwaitStats, homeAwaitSlots, homeView>>

topnav == <<tnInterval, tnIsPolling, tnPolls, tnInits>>

overlay == <<lfCalibratedSlots, lfIllegalZones, lfSlotStates, lfActiveViolations>>

livefeed == <<lfMounted, lfSlotCalls, lfViolationCalls, lfCalibrationCalls, overlay,
              lfNatural>>

banners == <<fadeTimers>>

image == <<imageComplete, natural>>

saving == <<isSaving, saveCalls, savesInFlight, saveSuccess, successTimers>>

calibration == <<calMounted, mode, rectangles, currentRect, isDrawing, image,
                 loadPending, saving>>

vars == <<provider, lastOp, backend, home, topnav, livefeed, banners, calibration>>

-----------------------------------------------------------------------------
(* Bounds of the model *)

\* the diffs and the pollers add at most this many notifications in a run
MaxNotifications == 2
\* direct calls of addNotification add at most this many in a run
MaxAdds == 4
\* longest slot array a payload carries
MaxSlots == 2
\* longest violation list a payload carries
MaxViolations == 2
\* most requests of one poll function awaiting their response at a time
MaxInFlight == 2
\* most slots of the parking lot whose statistics are computed
MaxLot == 3
\* most rectangles the editor's store holds, both collections together
MaxRects == 2
\* most save requests of the Calibration page in a run
MaxSaves == 2

-----------------------------------------------------------------------------
(* JavaScript values *)

Undefined == "undefined"
Null == [kind |-> "null"]

\* a || b on strings-or-undefined (ids are non-empty strings, hence truthy)
JsOr(a, b) == IF a # Undefined THEN a ELSE b

\* truthiness of a boolean-or-undefined token
Truthy(tok) == tok = "true"

EmptyMap == <<>>

MapKeys(m) == {m[i][1] : i \in 1..Len(m)}

MapHas(m, k) == \E i \in 1..Len(m) : m[i][1] = k

\* m[k]; only used where MapHas(m, k)
MapGet(m, k) == m[CHOOSE i \in 1..Len(m) : m[i][1] = k][2]

\* m[k] = v : an existing key keeps its position, a new key goes last
MapPut(m, k, v) ==
    IF MapHas(m, k)
    THEN [m EXCEPT ![CHOOSE i \in 1..Len(m) : m[i][1] = k] = <<k, v>>]
    ELSE Append(m, <<k, v>>)

\* A JavaScript number is a fraction in lowest terms, or NaN.  The code's
\* floating point is exact on the integers used here; on fractions it is
\* followed up to its rounding error.
NaN == [kind |-> "NaN"]

IsNum(v) == v.kind = "num"

Abs(i) == IF i < 0 THEN -i ELSE i

RECURSIVE Gcd(_, _)
Gcd(a, b) == IF b = 0 THEN a ELSE Gcd(b, a % b)

\* n / d with d > 0
Num(n, d) ==
    LET g == Gcd(Abs(n), d)
    IN [kind |-> "num", n |-> n \div g, d |-> d \div g]

Whole(i) == Num(i, 1)

\* a * b
Times(a, b) == IF IsNum(a) /\ IsNum(b) THEN Num(a.n * b.n, a.d * b.d) ELSE NaN

\* a - b : a string that is no number makes it NaN
Minus(a, b) ==
    IF IsNum(a) /\ IsNum(b) THEN Num(a.n * b.d - b.n * a.d, a.d * b.d) ELSE NaN

\* a + b, where a sum with a string is a string that is no number
Plus(a, b) ==
    IF IsNum(a) /\ IsNum(b) THEN Num(a.n * b.d + b.n * a.d, a.d * b.d) ELSE NaN

\* a / b for positive integers a and b
Over(a, b) == Num(a, b)

\* a > b : false when either side is NaN
Greater(a, b) == IsNum(a) /\ IsNum(b) /\ a.n * b.d > b.n * a.d

\* (mutant) the fraction is cut off
MathFloor(v) == IF IsNum(v) THEN Whole(v.n \div v.d) ELSE NaN

\* Math.round: the nearest integer, a half going up
MathRound(v) == IF IsNum(v) THEN Whole((2 * v.n + v.d) \div (2 * v.d)) ELSE NaN

\* JSON.stringify of a number: NaN is written as null
Json(v) == IF IsNum(v) THEN v ELSE Null

-----------------------------------------------------------------------------
(* NotificationProvider: the notification list *)

\* The provider's state as one record, so that a handler that makes several
\* calls is the composition of the calls.
ProviderState ==
    [list |-> notifications, timers |-> timers, next |-> nextId,
     activeViolations |-> activeViolations, slotStatus |-> slotStatus,
     prevSlots |-> prevSlots, prevViolations |-> prevViolations]

\* (mutant) the new notification goes to the end of the list
PrependAtEnd(n, list) == list \o <<n>>

\* setNotifications(prev => [newNotification, ...prev])
Prepend(n, list) == <<n>> \o list

\* (mutant) the notification is added but no timer is set for it
addNotificationWithoutTimer(p, type, data) ==
    [p EXCEPT !.list   = Prepend([id |-> p.next, type |-> type, data |-> data], p.list),
              !.next   = p.next + 1]

\* addNotification({type, message, data}): a fresh id, the notification is put
\* in front of the list, and a 10 s timer is scheduled that removes it.
addNotification(p, type, data) ==
    [p EXCEPT !.list   = Prepend([id |-> p.next, type |-> type, data |-> data], p.list),
              !.timers = Append(p.timers, p.next),
              !.next   = p.next + 1]

\* (mutant) removal by position: splice(findIndex(...), 1), which takes the
\* last element when the id is not found
SpliceOut(list, id) ==
    LET at == {i \in 1..Len(list) : list[i].id = id}
        k  == IF at = {} THEN Len(list) ELSE CHOOSE i \in at : TRUE
    IN SubSeq(list, 1, k - 1) \o SubSeq(list, k + 1, Len(list))

\* prev.filter(n => n.id !== id)
FilterOut(list, id) == SelectSeq(list, LAMBDA n : n.id # id)

-----------------------------------------------------------------------------
(* NotificationProvider.checkSlotChanges *)

\* slot.isOccupied || slot.status === 'occupied'
NormalizeOccupied(slot) == Truthy(slot.isOccupied) \/ slot.status = "occupied"

\* currentSlots.forEach(slot => currentSlotsMap[slot.id || slot.slotId] = ...)
\* Reading a field of a null element raises a TypeError.
RECURSIVE NormalizeArray(_, _)
NormalizeArray(arr, m) ==
    IF arr = <<>> THEN [threw |-> FALSE, map |-> m]
    ELSE LET slot == Head(arr) IN
         IF slot = Null THEN [threw |-> TRUE, map |-> m]
         ELSE NormalizeArray(Tail(arr),
                  MapPut(m, JsOr(slot.id, slot.slotId),
                         [kind |-> "obj", isOccupied |-> NormalizeOccupied(slot)]))

\* Object.entries(currentSlots).forEach(([key, value]) =>
\*     { if (typeof value === 'object') currentSlotsMap[key] = value })
\* typeof null is 'object', so a null value is kept as it is.
RECURSIVE NormalizeObject(_, _)
NormalizeObject(entries, m) ==
    IF entries = <<>> THEN m
    ELSE LET key == Head(entries)[1]
             value == Head(entries)[2]
         IN NormalizeObject(Tail(entries),
                IF value = Null THEN MapPut(m, key, Null)
                ELSE IF value.kind = "obj"
                     THEN MapPut(m, key, [kind |-> "obj",
                                          isOccupied |-> Truthy(value.isOccupied)])
                     ELSE m)

\* Lines 51-66: the payload as a map.  Object.entries(null) raises a
\* TypeError; undefined is neither an array nor an object and gives {}.
NormalizeSlots(currentSlots) ==
    CASE currentSlots.kind = "array"  -> NormalizeArray(currentSlots.items, EmptyMap)
      [] currentSlots.kind = "object" ->
             [threw |-> FALSE, map |-> NormalizeObject(currentSlots.entries, EmptyMap)]
      [] currentSlots.kind = "null"   -> [threw |-> TRUE, map |-> EmptyMap]
      [] OTHER                        -> [threw |-> FALSE, map |-> EmptyMap]

\* (mutant) the branches test the current state only
SlotTransitionIgnoringPrevious(p, slotId, prevSlot, slot) ==
    IF ~slot.isOccupied
    THEN addNotification(p, "slot_available", [slotId |-> slotId])
    ELSE addNotification(p, "slot_occupied", [slotId |-> slotId])

\* The two branches of lines 72-98 for one slot whose previous state exists.
SlotTransition(p, slotId, prevSlot, slot) ==
    IF prevSlot.isOccupied /\ ~slot.isOccupied
    THEN addNotification(p, "slot_available", [slotId |-> slotId])
    ELSE IF ~prevSlot.isOccupied /\ slot.isOccupied
         THEN addNotification(p, "slot_occupied", [slotId |-> slotId])
         ELSE p

\* (mutant) a slot seen for the first time counts as having been free
PrevSlotDefaultFree(prev, slotId) ==
    IF MapHas(prev, slotId) THEN MapGet(prev, slotId)
    ELSE [kind |-> "obj", isOccupied |-> FALSE]

\* const prevSlot = prevSlotsRef.current[slotId]: undefined for a key the
\* previous snapshot does not have.
PrevSlot(prev, slotId) ==
    IF MapHas(prev, slotId) THEN MapGet(prev, slotId) ELSE [kind |-> "undefined"]

\* Object.entries(currentSlotsMap).forEach(...), lines 69-99.  prevSlot is
\* falsy when it is undefined or null; reading slot.isOccupied of a null
\* current value raises a TypeError.
RECURSIVE CompareSlots(_, _, _)
CompareSlots(cur, i, p) ==
    IF i > Len(cur) THEN [threw |-> FALSE, p |-> p]
    ELSE LET slotId == cur[i][1]
             slot == cur[i][2]
             prevSlot == PrevSlot(p.prevSlots, slotId)
         IN IF prevSlot.kind = "obj"
            THEN IF slot = Null
                 THEN [threw |-> TRUE, p |-> p]
                 ELSE CompareSlots(cur, i + 1, SlotTransition(p, slotId, prevSlot, slot))
            ELSE CompareSlots(cur, i + 1, p)

\* (mutant) the state is set but the ref keeps the older snapshot
StoreSlotsStateOnly(p, currentSlotsMap) ==
    [p EXCEPT !.slotStatus = currentSlotsMap]

RECURSIVE MergeInto(_, _)
MergeInto(m, entries) ==
    IF entries = <<>> THEN m
    ELSE MergeInto(MapPut(m, Head(entries)[1], Head(entries)[2]), Tail(entries))

\* (mutant) the ref keeps the slots that the current snapshot does not have
StoreSlotsMerged(p, currentSlotsMap) ==
    [p EXCEPT !.slotStatus = currentSlotsMap,
              !.prevSlots = MergeInto(p.prevSlots, currentSlotsMap)]

\* setSlotStatus(currentSlotsMap); prevSlotsRef.current = currentSlotsMap
StoreSlots(p, currentSlotsMap) ==
    [p EXCEPT !.slotStatus = currentSlotsMap, !.prevSlots = currentSlotsMap]

\* checkSlotChanges(currentSlots): normalize, compare with the previous
\* snapshot, store.  An exception leaves the function at once: what was
\* already added stays added, and nothing after the throw runs.
checkSlotChanges(p, currentSlots) ==
    LET norm == NormalizeSlots(currentSlots) IN
    IF norm.threw THEN [threw |-> TRUE, p |-> p]
    ELSE LET cmp == CompareSlots(norm.map, 1, p) IN
         IF cmp.threw THEN cmp
         ELSE [threw |-> FALSE, p |-> StoreSlots(cmp.p, norm.map)]

-----------------------------------------------------------------------------
(* NotificationProvider.checkViolationChanges *)

\* The test inside prevViolationsRef.current.some(...), lines 112-113.
\* undefined === undefined is true in JavaScript, as it is for the token here.
SameViolation(v, violation) ==
    \/ v.id = violation.id
    \/ (v.license_plate = violation.license_plate /\ v.timestamp = violation.timestamp)

\* !prevViolationsRef.current.some(...)
IsNewViolation(prev, violation) ==
    ~ \E j \in 1..Len(prev) : SameViolation(prev[j], violation)

\* violations.forEach(...), lines 110-129.  A null element raises a
\* TypeError: in the callback of some() when the previous list is not empty,
\* and otherwise while the message of the notification is built.
RECURSIVE CompareViolations(_, _, _)
CompareViolations(violations, i, p) ==
    IF i > Len(violations) THEN [threw |-> FALSE, p |-> p]
    ELSE LET violation == violations[i] IN
         IF violation = Null THEN [threw |-> TRUE, p |-> p]
         ELSE CompareViolations(violations, i + 1,
                  IF IsNewViolation(p.prevViolations, violation)
                  THEN addNotification(p, "illegal_parking",
                           [violationId  |-> violation.id,
                            licensePlate |-> violation.license_plate,
                            timestamp    |-> violation.timestamp])
                  ELSE p)

\* setActiveViolations(violations); prevViolationsRef.current = violations
StoreViolations(p, violations) ==
    [p EXCEPT !.activeViolations = violations, !.prevViolations = violations]

\* checkViolationChanges(currentViolations)
checkViolationChanges(p, currentViolations) ==
    LET violations == IF currentViolations.kind = "array"
                      THEN currentViolations.items ELSE <<>>
        cmp == CompareViolations(violations, 1, p)
    IN IF cmp.threw THEN cmp
       ELSE [threw |-> FALSE, p |-> StoreViolations(cmp.p, violations)]

-----------------------------------------------------------------------------
(* NotificationProvider.getSlotStatistics *)

\* Number.prototype.toFixed(1) of (occupied / total) * 100, in tenths of a
\* percent: the nearest tenth, the larger one when two are equally near.
ToFixed1(occupied, total) == (2000 * occupied + total) \div (2 * total)

\* Object.values(slotStatus).filter(s => s.isOccupied).length
OccupiedCount(status) ==
    Cardinality({i \in 1..Len(status) : status[i][2].isOccupied})

\* getSlotStatistics(), lines 137-151.  s.isOccupied of a null entry raises
\* a TypeError.  occupancyPercentage is the string of toFixed(1), or the
\* number 0 when there is no slot.
getSlotStatistics(status) ==
    IF \E i \in 1..Len(status) : status[i][2] = Null
    THEN [threw |-> TRUE]
    ELSE LET total    == Len(status)
             occupied == OccupiedCount(status)
         IN [threw |-> FALSE,
             total |-> total,
             occupied |-> occupied,
             available |-> total - occupied,
             occupancyPercentage |->
                 IF total > 0
                 THEN [kind |-> "string", tenths |-> ToFixed1(occupied, total)]
                 ELSE [kind |-> "number", tenths |-> 0],
             slots |-> status]

-----------------------------------------------------------------------------
(* Payloads *)

SlotIds == {"A1", "A2"}

\* A slot is named by id or by slotId ("slotId|id" in the HTTP contract).
KeyShapes ==
    { [id |-> "A1", slotId |-> Undefined],
      [id |-> Undefined, slotId |-> "A2"] }

\* Occupancy arrives as a boolean isOccupied or as a string status.
OccShapes ==
    { [isOccupied |-> "true", status |-> Undefined],
      [isOccupied |-> "false", status |-> "available"],
      [isOccupied |-> Undefined, status |-> "occupied"] }

SlotObjects ==
    { [kind |-> "obj", id |-> k.id, slotId |-> k.slotId,
       isOccupied |-> o.isOccupied, status |-> o.status] : k \in KeyShapes, o \in OccShapes }

SeqsUpTo(S, n) == UNION { [1..k -> S] : k \in 0..n }

SlotArrays == { [kind |-> "array", items |-> a] : a \in SeqsUpTo(SlotObjects \cup {Null}, MaxSlots) }

\* Values of an object payload: null, a slot object, or a primitive.
ObjectValues ==
    { Null, [kind |-> "prim"],
      [kind |-> "obj", isOccupied |-> "true"], [kind |-> "obj", isOccupied |-> "false"] }

SlotObjectPayloads ==
    { [kind |-> "object", entries |-> e] :
        e \in { x \in SeqsUpTo(SlotIds \X ObjectValues, MaxSlots) :
                  \A i, j \in 1..Len(x) : i # j => x[i][1] # x[j][1] } }

SlotPayloads ==
    SlotArrays \cup SlotObjectPayloads \cup {[kind |-> "null"], [kind |-> "undefined"]}

ViolationObjects ==
    { [kind |-> "obj", id |-> "v1", license_plate |-> "P1", timestamp |-> "T1"],
      [kind |-> "obj", id |-> "v2", license_plate |-> "P1", timestamp |-> "T1"],
      [kind |-> "obj", id |-> Undefined, license_plate |-> "P1", timestamp |-> "T1"],
      [kind |-> "obj", id |-> Undefined, license_plate |-> "P2", timestamp |-> "T2"],
      [kind |-> "obj", id |-> "v1", license_plate |-> Undefined, timestamp |-> Undefined],
      [kind |-> "obj", id |-> "v2", license_plate |-> Undefined, timestamp |-> Undefined] }

ViolationPayloads ==
    { [kind |-> "array", items |-> a] :
        a \in SeqsUpTo(ViolationObjects \cup {Null}, MaxViolations) }
    \cup {[kind |-> "undefined"]}

-----------------------------------------------------------------------------
(* The provider as a state machine: its functions called one at a time *)

ProviderInit ==
    /\ notifications = <<>>
    /\ timers = <<>>
    /\ nextId = 1
    /\ activeViolations = <<>>
    /\ slotStatus = EmptyMap
    /\ prevSlots = EmptyMap
    /\ prevViolations = <<>>
    /\ lastOp = [op |-> "init", threw |-> FALSE]

\* The runs of the model stop adding notifications at the bound.
WithinBound(p) == p.next <= MaxNotifications + 1

\* The provider's variables take the values of the record p.
Apply(p) ==
    /\ notifications' = p.list
    /\ timers' = p.timers
    /\ nextId' = p.next
    /\ activeViolations' = p.activeViolations
    /\ slotStatus' = p.slotStatus
    /\ prevSlots' = p.prevSlots
    /\ prevViolations' = p.prevViolations

CallCheckSlotChanges ==
    \E currentSlots \in SlotPayloads :
        LET r == checkSlotChanges(ProviderState, currentSlots) IN
        /\ WithinBound(r.p)
        /\ Apply(r.p)
        /\ lastOp' = [op |-> "checkSlotChanges", threw |-> r.threw]
        /\ UNCHANGED <<backend, home, topnav, livefeed, banners, calibration>>

CallCheckViolationChanges ==
    \E currentViolations \in ViolationPayloads :
        LET r == checkViolationChanges(ProviderState, currentViolations) IN
        /\ WithinBound(r.p)
        /\ Apply(r.p)
        /\ lastOp' = [op |-> "checkViolationChanges", threw |-> r.threw]
        /\ UNCHANGED <<backend, home, topnav, livefeed, banners, calibration>>

\* A consumer of the context calls addNotification itself.
NotificationTypes == {"slot_available", "illegal_parking"}

CallAddNotification ==
    \E type \in NotificationTypes :
        /\ nextId <= MaxAdds
        /\ Apply(addNotification(ProviderState, type, [kind |-> "none"]))
        /\ lastOp' = [op |-> "addNotification", threw |-> FALSE]
        /\ UNCHANGED <<backend, home, topnav, livefeed, banners, calibration>>

\* removeNotification(id): the operator dismisses a notification
RemoveNotification ==
    \E id \in 1..(nextId - 1) :
        /\ notifications' = FilterOut(notifications, id)
        /\ lastOp' = [op |-> "removeNotification", threw |-> FALSE, id |-> id]
        /\ UNCHANGED <<timers, nextId, activeViolations, slotStatus,
                       prevSlots, prevViolations>>
        /\ UNCHANGED <<backend, home, topnav, livefeed, banners, calibration>>

\* The 10 s timer of addNotification fires.  All timers have the same delay,
\* so they fire in the order they were set.
ExpireNotification ==
    /\ timers # <<>>
    /\ notifications' = FilterOut(notifications, Head(timers))
    /\ timers' = Tail(timers)
    /\ lastOp' = [op |-> "expire", threw |-> FALSE, id |-> Head(timers)]
    /\ UNCHANGED <<nextId, activeViolations, slotStatus, prevSlots, prevViolations>>
    /\ UNCHANGED <<backend, home, topnav, livefeed, banners, calibration>>

\* NotificationCenter renders: const stats = getSlotStatistics()
GetSlotStatistics ==
    /\ lastOp' = [op |-> "getSlotStatistics",
                  threw |-> getSlotStatistics(slotStatus).threw,
                  result |-> getSlotStatistics(slotStatus)]
    /\ UNCHANGED <<provider, backend, home, topnav, livefeed, banners, calibration>>

-----------------------------------------------------------------------------
(* NotificationBanner, rendered by TopNav for notifications.slice(0, 3) with
   onDismiss = removeNotification of the provider *)

\* The ids TopNav renders a banner for: notifications.slice(0, 3)
BannerIds(list) ==
    {list[i].id : i \in 1..(IF Len(list) < 3 THEN Len(list) ELSE 3)}

\* A mounted banner whose 8 s dismissTimer has not fired yet.  The timer is
\* set when the banner mounts and cleared when it unmounts.
DismissTimerPending(id) ==
    /\ id \in BannerIds(notifications)
    /\ [id |-> id, by |-> "timer"] \notin fadeTimers

\* The 8 s dismissTimer of a banner fires: setIsVisible(false) and a 300 ms
\* timer that will call onDismiss(notification.id).
BannerDismissTimer ==
    \E id \in BannerIds(notifications) :
        /\ DismissTimerPending(id)
        /\ fadeTimers' = fadeTimers \cup {[id |-> id, by |-> "timer"]}
        /\ lastOp' = [op |-> "bannerTimer", threw |-> FALSE, id |-> id]
        /\ UNCHANGED <<provider, backend, home, topnav, livefeed, calibration>>

\* handleDismiss: the operator closes a banner; the same 300 ms timer.
BannerHandleDismiss ==
    \E id \in BannerIds(notifications) :
        /\ [id |-> id, by |-> "operator"] \notin fadeTimers
        /\ fadeTimers' = fadeTimers \cup {[id |-> id, by |-> "operator"]}
        /\ lastOp' = [op |-> "bannerHandleDismiss", threw |-> FALSE, id |-> id]
        /\ UNCHANGED <<provider, backend, home, topnav, livefeed, calibration>>

\* A 300 ms timer fires: onDismiss(notification.id), that is
\* removeNotification(id).  The timer is not cleared when the banner unmounts.
BannerFade ==
    \E t \in fadeTimers :
        /\ fadeTimers' = fadeTimers \ {t}
        /\ notifications' = FilterOut(notifications, t.id)
        /\ lastOp' = [op |-> "bannerFade", threw |-> FALSE, id |-> t.id, by |-> t.by]
        /\ UNCHANGED <<timers, nextId, activeViolations, slotStatus,
                       prevSlots, prevViolations>>
        /\ UNCHANGED <<backend, home, topnav, livefeed, calibration>>

-----------------------------------------------------------------------------
(* The backend, as the pollers see it *)

\* GET /slots answers { slots: [...] }
BackendSlots ==
    { [kind |-> "array", items |-> <<>>],
      [kind |-> "array", items |->
          <<[kind |-> "obj", id |-> "A1", slotId |-> Undefined,
             isOccupied |-> Undefined, status |-> "available"]>>],
      [kind |-> "array", items |->
          <<[kind |-> "obj", id |-> "A1", slotId |-> Undefined,
             isOccupied |-> Undefined, status |-> "occupied"]>>],
      [kind |-> "array", items |->
          <<[kind |-> "obj", id |-> "A1", slotId |-> Undefined,
             isOccupied |-> "true", status |-> Undefined]>>],
      [kind |-> "array", items |-> <<Null>>],
      [kind |-> "undefined"] }

\* GET /dashboard/stats answers { activeViolationsList: [...], ... }
BackendViolations ==
    { [kind |-> "array", items |-> <<>>],
      [kind |-> "array", items |->
          <<[kind |-> "obj", id |-> "v1", license_plate |-> "P1", timestamp |-> "T1",
             zone |-> <<"Z", "1">>]>>],
      [kind |-> "array", items |->
          <<[kind |-> "obj", id |-> "v1", license_plate |-> "P1", timestamp |-> "T1",
             zone |-> <<"Z", "1">>],
            Null>>],
      [kind |-> "undefined"] }

\* The parking lot changes, or the backend starts or stops sending an element
\* that the console cannot read.
BackendSlotsChange ==
    /\ \E slots \in BackendSlots \ {backend.slots} :
           backend' = [backend EXCEPT !.slots = slots]
    /\ lastOp' = [op |-> "backend", threw |-> FALSE]
    /\ UNCHANGED <<provider, home, topnav, livefeed, banners, calibration>>

\* GET /dashboard/stats answers { occupancy, activeViolations, ... }: the
\* occupancy in percent, below, at and above the 85 and the 95 of Home's
\* alerts, and the number of active violations
BackendStats ==
    { [occupancy |-> o, activeViolations |-> v] :
        o \in {0, 85, 86, 95, 96}, v \in {0, 1, 2} }

\* Vehicles come and go, violations are found and resolved
BackendStatsChange ==
    /\ \E stats \in BackendStats \ {backend.stats} :
           backend' = [backend EXCEPT !.stats = stats]
    /\ lastOp' = [op |-> "backend", threw |-> FALSE]
    /\ UNCHANGED <<provider, home, topnav, livefeed, banners, calibration>>

\* A violation appears or is resolved.
BackendViolationsChange ==
    /\ \E violations \in BackendViolations \ {backend.violations} :
           backend' = [backend EXCEPT !.violations = violations]
    /\ lastOp' = [op |-> "backend", threw |-> FALSE]
    /\ UNCHANGED <<provider, home, topnav, livefeed, banners, calibration>>

-----------------------------------------------------------------------------
(* Home.loadDashboardData, polled every 5 s *)

\* String.prototype.toUpperCase on the statuses the backend sends
ToUpperCase(str) ==
    CASE str = "occupied"  -> "OCCUPIED"
      [] str = "available" -> "AVAILABLE"
      [] OTHER             -> str

\* The element Home passes on, lines 69-75:
\* status: slot.status ? slot.status.toUpperCase() : 'AVAILABLE'
HomeSlot(slot) ==
    [slot EXCEPT !.status = IF slot.status # Undefined
                            THEN ToUpperCase(slot.status) ELSE "AVAILABLE"]

\* (slotsData.slots || []).map(...): reading slot.status of a null element
\* raises a TypeError.
HomeSlotsArray(slots) ==
    IF slots.kind # "array" THEN [threw |-> FALSE, arr |-> [kind |-> "array", items |-> <<>>]]
    ELSE IF \E i \in 1..Len(slots.items) : slots.items[i] = Null
         THEN [threw |-> TRUE, arr |-> [kind |-> "array", items |-> <<>>]]
         ELSE [threw |-> FALSE,
               arr |-> [kind |-> "array",
                        items |-> [i \in 1..Len(slots.items) |-> HomeSlot(slots.items[i])]]]

\* stats.activeViolationsList || []
HomeViolationsList(stats) ==
    IF stats.kind = "array" THEN stats ELSE [kind |-> "array", items |-> <<>>]

\* Lines 67-86 after getSlots has answered: everything inside one try block,
\* so the first exception skips the rest.
HomeAfterSlots(p, slotsData, stats) ==
    LET mapped == HomeSlotsArray(slotsData) IN
    IF mapped.threw THEN [threw |-> TRUE, p |-> p]
    ELSE LET r == checkSlotChanges(p, mapped.arr) IN
         IF r.threw THEN r
         ELSE checkViolationChanges(r.p, HomeViolationsList(stats))

\* setInterval(loadDashboardData, 5000) fires (or the page is mounted):
\* loadDashboardData starts and awaits getDashboardStats.
HomeTick ==
    /\ homeMounted
    /\ homeAwaitStats + Len(homeAwaitSlots) < MaxInFlight
    /\ homeAwaitStats' = homeAwaitStats + 1
    /\ lastOp' = [op |-> "homeTick", threw |-> FALSE]
    /\ UNCHANGED <<provider, backend, homeMounted, homeAwaitSlots, topnav, livefeed, banners, calibration>>
    /\ UNCHANGED homeView

\* The five tests of checkForNotifications(currentStats, prevStats), lines
\* 94-146, in their order; addNotification, lines 148-154, appends
checkForNotifications(list, currentStats, prevStats) ==
    LET currentOccupancy  == currentStats.occupancy
        prevOccupancy     == prevStats.occupancy
        currentViolations == currentStats.activeViolations
        prevViolations_   == prevStats.activeViolations
        add(l, cond, type, about) ==
            IF cond THEN Append(l, [type |-> type, about |-> about]) ELSE l
        l1 == add(list, currentOccupancy > 85 /\ prevOccupancy <= 85,
                  "warning", "high occupancy")
        l2 == add(l1, currentOccupancy <= 85 /\ prevOccupancy > 85,
                  "success", "occupancy normalized")
        l3 == add(l2, currentViolations > prevViolations_,
                  "illegal_parking", "new violations")
        l4 == add(l3, currentViolations < prevViolations_ /\ currentViolations >= 0,
                  "success", "violations resolved")
    IN add(l4, currentOccupancy > 95 /\ prevOccupancy <= 95,
           "illegal_parking", "critical occupancy")

\* previousStats as loadDashboardData reads it at line 59.  The effect of
\* lines 45-49 runs once (its dependency list is empty): the function it
\* calls and hands to setInterval is the loadDashboardData of the first
\* render, and in that render previousStats is the null of line 39.
PreviousStatsOfClosure == Null

\* getDashboardStats answers.  A failure goes to catch and finally; a success
\* compares the stats with previousStats (lines 59-61), keeps them (lines
\* 63-64) and awaits getSlots.
HomeStatsResponse ==
    /\ homeAwaitStats > 0
    /\ homeAwaitStats' = homeAwaitStats - 1
    /\ \E ok \in BOOLEAN :
          /\ homeAwaitSlots' = IF ok THEN Append(homeAwaitSlots, backend.violations)
                               ELSE homeAwaitSlots
          /\ homeBanners' =
                 IF ok /\ homeMounted /\ PreviousStatsOfClosure # Null
                 THEN checkForNotifications(homeBanners, backend.stats,
                                            PreviousStatsOfClosure)
                 ELSE homeBanners
          /\ homePreviousStats' =
                 IF ok /\ homeMounted THEN backend.stats ELSE homePreviousStats
          /\ lastOp' = [op |-> IF ok THEN "homeStats" ELSE "homeStatsFailed",
                        threw |-> FALSE]
    /\ UNCHANGED <<provider, backend, homeMounted, topnav, livefeed, banners, calibration>>

RemoveAt(seq, i) == SubSeq(seq, 1, i - 1) \o SubSeq(seq, i + 1, Len(seq))

\* getSlots answers an invocation that holds its stats.
HomeSlotsResponse ==
    \E i \in 1..Len(homeAwaitSlots) :
        /\ homeAwaitSlots' = RemoveAt(homeAwaitSlots, i)
        /\ \/ /\ lastOp' = [op |-> "homeSlotsFailed", threw |-> FALSE]
              /\ UNCHANGED provider
           \/ LET r == HomeAfterSlots(ProviderState, backend.slots, homeAwaitSlots[i]) IN
              /\ WithinBound(r.p)
              /\ Apply(r.p)
              /\ lastOp' = [op |-> "homeSlots", threw |-> r.threw]
        /\ UNCHANGED <<backend, homeMounted, homeAwaitStats, topnav, livefeed, banners, calibration>>
        /\ UNCHANGED homeView

\* The operator leaves the Home page: clearInterval.  Requests already sent
\* still complete.
HomeUnmount ==
    /\ homeMounted
    /\ homeMounted' = FALSE
    /\ lastOp' = [op |-> "homeUnmount", threw |-> FALSE]
    /\ UNCHANGED <<provider, backend, homeAwaitStats, homeAwaitSlots, topnav, livefeed, banners, calibration>>
    /\ UNCHANGED homeView

\* The operator opens the Home page: the effect calls loadDashboardData and
\* sets the interval.
HomeMount ==
    /\ ~homeMounted
    /\ homeAwaitStats + Len(homeAwaitSlots) < MaxInFlight
    /\ homeMounted' = TRUE
    /\ homeAwaitStats' = homeAwaitStats + 1
    /\ homePreviousStats' = Null
    /\ homeBanners' = <<>>
    /\ lastOp' = [op |-> "homeMount", threw |-> FALSE]
    /\ UNCHANGED <<provider, backend, homeAwaitSlots, topnav, livefeed, banners, calibration>>

-----------------------------------------------------------------------------
(* TopNav: the poll effect, lines 19-70 *)

\* The body of the try block, the same in the interval callback (lines 26-38)
\* and in initialFetch (lines 49-61).  An array, even an empty one, is truthy;
\* a missing field is not.
TopNavAfterFetch(p, slotsData, stats) ==
    LET r == IF slotsData.kind = "array"
             THEN checkSlotChanges(p, slotsData) ELSE [threw |-> FALSE, p |-> p]
    IN IF r.threw THEN r
       ELSE IF stats.kind = "array"
            THEN checkViolationChanges(r.p, stats) ELSE r

\* The 30 s interval fires: setIsPolling(true) and both requests are sent.
\* The render that follows runs the effect again with isPolling true: its
\* cleanup clears the interval and its body returns at line 20.
TopNavTick ==
    /\ tnInterval
    /\ tnInits < MaxInFlight
    /\ tnIsPolling' = TRUE
    /\ tnInterval' = FALSE
    /\ tnPolls' = tnPolls + 1
    /\ lastOp' = [op |-> "topnavTick", threw |-> FALSE]
    /\ UNCHANGED <<provider, backend, home, tnInits, livefeed, banners, calibration>>

\* (mutant) the interval callback without its finally on the failure path: isPolling
\* stays true, so the effect sets no interval again.
TopNavPollResponseWithoutFinally ==
    /\ tnPolls > 0
    /\ tnPolls' = tnPolls - 1
    /\ \/ /\ lastOp' = [op |-> "topnavPollFailed", threw |-> FALSE]
          /\ UNCHANGED <<provider, tnIsPolling, tnInterval, tnInits>>
       \/ LET r == TopNavAfterFetch(ProviderState, backend.slots, backend.violations) IN
          /\ WithinBound(r.p)
          /\ Apply(r.p)
          /\ tnIsPolling' = FALSE
          /\ tnInterval' = TRUE
          /\ tnInits' = tnInits + 1
          /\ lastOp' = [op |-> "topnavPoll", threw |-> r.threw]
    /\ UNCHANGED <<backend, home, livefeed, banners, calibration>>

\* Promise.all of the interval callback settles.  finally: setIsPolling(false);
\* the render that follows runs the effect again with isPolling false, which
\* sets a new interval and calls initialFetch.
TopNavPollResponse ==
    /\ tnPolls > 0
    /\ tnPolls' = tnPolls - 1
    /\ tnIsPolling' = FALSE
    /\ tnInterval' = TRUE
    /\ tnInits' = tnInits + 1
    /\ \/ /\ lastOp' = [op |-> "topnavPollFailed", threw |-> FALSE]
          /\ UNCHANGED provider
       \/ LET r == TopNavAfterFetch(ProviderState, backend.slots, backend.violations) IN
          /\ WithinBound(r.p)
          /\ Apply(r.p)
          /\ lastOp' = [op |-> "topnavPoll", threw |-> r.threw]
    /\ UNCHANGED <<backend, home, livefeed, banners, calibration>>

\* Promise.all of an initialFetch settles.
TopNavInitResponse ==
    /\ tnInits > 0
    /\ tnInits' = tnInits - 1
    /\ \/ /\ lastOp' = [op |-> "topnavInitFailed", threw |-> FALSE]
          /\ UNCHANGED provider
       \/ LET r == TopNavAfterFetch(ProviderState, backend.slots, backend.violations) IN
          /\ WithinBound(r.p)
          /\ Apply(r.p)
          /\ lastOp' = [op |-> "topnavInit", threw |-> r.threw]
    /\ UNCHANGED <<backend, home, tnInterval, tnIsPolling, tnPolls, livefeed, banners, calibration>>

-----------------------------------------------------------------------------
(* LiveFeed: the poll effect, lines 45-100, and the overlay, lines 107-209.
   LiveFeed is rendered by Home; it keeps its own state and shares nothing
   with Home or with the provider.  An id of a zone, and the zone of a
   violation, is the sequence of its characters. *)

\* An object of the calibration, from id to corners
Object(entries) == [kind |-> "obj", entries |-> entries]

\* What getCalibration() may answer to LiveFeed: a slot, and zones with
\* ids that are, are part of, contain and differ from the zone "Z1"
OverlayCalibrations ==
    { [kind |-> "obj",
       parking_slots |-> Object(<< <<"A1", <<1, 2, 4, 6>> >> >>),
       illegal_zones |-> Object(<< << <<"Z", "1">>, <<0, 0, 2, 3>> >>,
                                   << <<"Z">>, <<2, 0, 4, 3>> >>,
                                   << <<"Z", "1", "2">>, <<4, 0, 6, 3>> >>,
                                   << <<"Z", "2">>, <<6, 0, 8, 3>> >> >>)],
      [kind |-> "obj",
       parking_slots |-> Object(<< <<"A1", <<1, 2, 4, 6>> >> >>),
       illegal_zones |-> Object(<< << <<"Z", "1">>, <<0, 0, 2, 3>> >> >>)] }

\* What await getSlots() gives to loadSlotStates: the answer of GET /slots,
\* { slots: [...] }, has no field slot_states
GetSlotsAnswer == [kind |-> "obj", slots |-> backend.slots, slot_states |-> Undefined]

\* Line 70: if (data && data.slot_states) setSlotStates(data.slot_states)
SlotStatesAfter(data, mounted, states) ==
    IF mounted /\ data.slot_states # Undefined THEN data.slot_states ELSE states

\* Lines 81-83: if (mounted && data.activeViolationsList) setActiveViolations(...)
ViolationsAfter(list, mounted, violations) ==
    IF mounted /\ list.kind = "array" THEN list ELSE violations

\* String.prototype.includes
Includes(str, sub) ==
    \E i \in 0..(Len(str) - Len(sub)) : SubSeq(str, i + 1, i + Len(sub)) = sub

\* Line 177: v.zone === zoneId || v.zone?.includes(zoneId)
ZoneMatches(v, zoneId) == v.zone = zoneId \/ Includes(v.zone, zoneId)

\* activeViolations.some(v => ...), line 177: "true", "false", or "threw"
\* when the test reads the zone of a null element
RECURSIVE SomeViolation(_, _)
SomeViolation(items, zoneId) ==
    IF items = <<>> THEN "false"
    ELSE IF Head(items) = Null THEN "threw"
    ELSE IF ZoneMatches(Head(items), zoneId) THEN "true"
    ELSE SomeViolation(Tail(items), zoneId)

\* Lines 141-143 and 153: the colour and the marker of a slot
SlotStyle(slotId, states) ==
    LET state    == IF MapHas(states, slotId) THEN MapGet(states, slotId) ELSE Undefined
        occupied == state \in {"OCCUPIED", "occupied", "OCCUPY"}
    IN [id |-> slotId,
        color |-> IF occupied THEN "yellow" ELSE "green",
        marker |-> IF occupied THEN "P" ELSE "check"]

\* Lines 177-178, 188 and 193: the colour and the label suffix of a zone
ZoneStyle(zoneId, violations) ==
    LET hasViolation == SomeViolation(violations.items, zoneId) = "true"
    IN [id |-> zoneId,
        color |-> IF hasViolation THEN "red" ELSE "orange",
        suffix |-> IF hasViolation THEN " [VIOLATION]" ELSE ""]

\* drawOverlay(), lines 111-209: the style of every slot and of every zone,
\* in the order of drawing; the drawing stops at the zone whose test throws.
\* (Where the rectangles are drawn is not followed here.)
drawOverlay(slots, zones, states, violations) ==
    LET threwAt == IF zones = Null THEN {}
                   ELSE {i \in 1..Len(zones.entries) :
                           SomeViolation(violations.items, zones.entries[i][1]) = "threw"}
        drawn   == IF zones = Null THEN 0
                   ELSE IF threwAt = {} THEN Len(zones.entries)
                   ELSE (CHOOSE i \in threwAt : \A j \in threwAt : i <= j) - 1
    IN [threw |-> threwAt # {},
        slots |-> IF slots = Null THEN <<>>
                  ELSE [i \in 1..Len(slots.entries) |->
                           SlotStyle(slots.entries[i][1], states)],
        zones |-> [i \in 1..drawn |-> ZoneStyle(zones.entries[i][1], violations)]]

\* What the canvas shows: the effect of lines 107-109 redraws it whenever
\* one of the four states changes
Overlay == drawOverlay(lfCalibratedSlots, lfIllegalZones, lfSlotStates, lfActiveViolations)

\* setInterval(() => { loadSlotStates(); loadViolations(); }, 2000) fires
LiveFeedTick ==
    /\ lfMounted
    /\ lfSlotCalls < MaxInFlight
    /\ lfViolationCalls < MaxInFlight
    /\ lfSlotCalls' = lfSlotCalls + 1
    /\ lfViolationCalls' = lfViolationCalls + 1
    /\ lastOp' = [op |-> "liveFeedTick", threw |-> FALSE]
    /\ UNCHANGED <<banners, calibration, provider, backend, home, topnav, lfMounted>>
    /\ UNCHANGED <<lfCalibrationCalls, overlay, lfNatural>>

\* getSlots answers loadSlotStates (or fails: the catch ignores it)
LiveFeedSlotsResponse ==
    /\ lfSlotCalls > 0
    /\ lfSlotCalls' = lfSlotCalls - 1
    /\ lfSlotStates' = SlotStatesAfter(GetSlotsAnswer, lfMounted, lfSlotStates)
    /\ lastOp' = [op |-> "liveFeedSlots", threw |-> FALSE]
    /\ UNCHANGED <<banners, calibration, provider, backend, home, topnav, lfMounted, lfViolationCalls>>
    /\ UNCHANGED <<lfCalibrationCalls, lfCalibratedSlots, lfIllegalZones, lfActiveViolations>>
    /\ UNCHANGED lfNatural

\* fetch answers loadViolations (or fails); the redraw that follows throws
\* when a zone is tested against a null element of the list
LiveFeedViolationsResponse ==
    /\ lfViolationCalls > 0
    /\ lfViolationCalls' = lfViolationCalls - 1
    /\ \/ lfActiveViolations' = ViolationsAfter(backend.violations, lfMounted, lfActiveViolations)
       \/ UNCHANGED lfActiveViolations
    /\ UNCHANGED <<banners, calibration, provider, backend, home, topnav, lfMounted, lfSlotCalls>>
    /\ UNCHANGED <<lfCalibrationCalls, lfCalibratedSlots, lfIllegalZones, lfSlotStates>>
    /\ UNCHANGED lfNatural
    /\ lastOp' = [op |-> "liveFeedViolations", threw |-> Overlay'.threw]

\* getCalibration answers LiveFeed's loadCalibration, lines 48-62 (or fails)
LiveFeedCalibrationResponse ==
    /\ lfCalibrationCalls > 0
    /\ lfCalibrationCalls' = lfCalibrationCalls - 1
    /\ \/ \E data \in OverlayCalibrations :
             IF lfMounted
             THEN /\ lfCalibratedSlots' = data.parking_slots
                  /\ lfIllegalZones' = data.illegal_zones
             ELSE UNCHANGED <<lfCalibratedSlots, lfIllegalZones>>
       \/ UNCHANGED <<lfCalibratedSlots, lfIllegalZones>>
    /\ UNCHANGED <<banners, calibration, provider, backend, home, topnav, lfMounted>>
    /\ UNCHANGED <<lfSlotCalls, lfViolationCalls, lfSlotStates, lfActiveViolations>>
    /\ UNCHANGED lfNatural
    /\ lastOp' = [op |-> "liveFeedCalibration", threw |-> Overlay'.threw]

\* The cleanup of the effect: mounted = false; clearInterval(poll)
LiveFeedUnmount ==
    /\ lfMounted
    /\ lfMounted' = FALSE
    /\ lastOp' = [op |-> "liveFeedUnmount", threw |-> FALSE]
    /\ UNCHANGED <<banners, calibration, provider, backend, home, topnav, lfSlotCalls, lfViolationCalls>>
    /\ UNCHANGED <<lfCalibrationCalls, overlay, lfNatural>>

\* naturalWidth and naturalHeight of an img that has no frame yet
NotLoaded == [w |-> 0, h |-> 0]

\* LiveFeed's state at its first render, lines 14-17
OverlayInit ==
    /\ lfCalibratedSlots = Null
    /\ lfIllegalZones = Null
    /\ lfSlotStates = EmptyMap
    /\ lfActiveViolations = [kind |-> "array", items |-> <<>>]

\* The effect runs on mount: loadCalibration(); loadSlotStates();
\* loadViolations(); setInterval
LiveFeedMount ==
    /\ ~lfMounted
    /\ lfSlotCalls < MaxInFlight
    /\ lfViolationCalls < MaxInFlight
    /\ lfCalibrationCalls < MaxInFlight
    /\ lfMounted' = TRUE
    /\ lfSlotCalls' = lfSlotCalls + 1
    /\ lfViolationCalls' = lfViolationCalls + 1
    /\ lfCalibrationCalls' = lfCalibrationCalls + 1
    /\ lfCalibratedSlots' = Null
    /\ lfIllegalZones' = Null
    /\ lfSlotStates' = EmptyMap
    /\ lfActiveViolations' = [kind |-> "array", items |-> <<>>]
    /\ lfNatural' = NotLoaded
    /\ lastOp' = [op |-> "liveFeedMount", threw |-> FALSE]
    /\ UNCHANGED <<banners, calibration, provider, backend, home, topnav>>

-----------------------------------------------------------------------------
(* Calibration page: the rectangle editor.  Mouse positions are display
   (canvas) coordinates; stored rectangles are in image coordinates.  A
   string the operator types is the sequence of its characters. *)

CalibrationInit ==
    /\ calMounted = TRUE
    /\ mode = "slots"
    /\ rectangles = [slots |-> <<>>, illegal |-> <<>>]
    /\ currentRect = Null
    /\ isDrawing = FALSE
    /\ imageComplete = FALSE
    /\ natural = [w |-> 0, h |-> 0]
    /\ loadPending = TRUE
    /\ isSaving = FALSE
    /\ saveCalls = 0
    /\ savesInFlight = 0
    /\ saveSuccess = FALSE
    /\ successTimers = 0

\* getMousePos(e): the positions a mouse event can carry.  From the corner
\* (0, 0) they span rectangles below, at and above the 20 px of line 192.
Positions ==
    { [x |-> 0, y |-> 0], [x |-> 21, y |-> 0], [x |-> 20, y |-> 20],
      [x |-> 21, y |-> 20], [x |-> 21, y |-> 21] }

\* canvas.width and canvas.height, set from the container by drawCanvas
CanvasWidth == 40

CanvasHeight == 30

\* image.naturalWidth and image.naturalHeight of the images the page shows:
\* the frames of the feed, and the placeholder that onError puts in its place
NaturalSizes == { [w |-> 80, h |-> 90], [w |-> 60, h |-> 20] }

\* What the operator may type into the prompt
TypedTexts == {<<>>, <<" ", " ">>, <<" ", "S", "1", " ">>, <<"S", "2">>}

\* What prompt() returns: null when cancelled, else the text typed
PromptAnswers == {Null} \cup {[kind |-> "string", chars |-> t] : t \in TypedTexts}

Whitespace == {" "}

\* (mutant) the text is stored as typed
TrimNothing(str) == str

\* String.prototype.trim
RECURSIVE Trim(_)
Trim(str) ==
    IF str = <<>> THEN <<>>
    ELSE IF Head(str) \in Whitespace THEN Trim(Tail(str))
    ELSE IF str[Len(str)] \in Whitespace THEN Trim(SubSeq(str, 1, Len(str) - 1))
    ELSE str

\* if (id && id.trim()): null and the empty string are falsy
Accepted(id) == id # Null /\ id.chars # <<>> /\ Trim(id.chars) # <<>>

MinOf(a, b) == IF a < b THEN a ELSE b

MaxOf(a, b) == IF a > b THEN a ELSE b

\* Lines 178-181: the corners of the rectangle between the start of the
\* drag and the position of the mouseup, in canvas coordinates
CanvasCorners(rect, pos) ==
    [x1 |-> MinOf(rect.startX, pos.x), y1 |-> MinOf(rect.startY, pos.y),
     x2 |-> MaxOf(rect.startX, pos.x), y2 |-> MaxOf(rect.startY, pos.y)]

\* Line 192: the test that lets a rectangle through to the prompt
LargeEnough(c) == c.x2 - c.x1 > 20 /\ c.y2 - c.y1 > 20

\* (mutant) the image-to-canvas factor is used in both directions
ToNativeScaleInverted(nat) ==
    [x |-> Over(CanvasWidth, nat.w), y |-> Over(CanvasHeight, nat.h)]

\* Lines 184-185: scaleX = image.naturalWidth / canvas.width,
\* scaleY = image.naturalHeight / canvas.height
ToNativeScale(nat) ==
    [x |-> Over(nat.w, CanvasWidth), y |-> Over(nat.h, CanvasHeight)]

\* Lines 187-201: newRect, in image coordinates
NewRect(id, c, nat) ==
    LET scale == ToNativeScale(nat)
        x1    == Times(Whole(c.x1), scale.x)
        y1    == Times(Whole(c.y1), scale.y)
        x2    == Times(Whole(c.x2), scale.x)
        y2    == Times(Whole(c.y2), scale.y)
    IN [id |-> Trim(id.chars), x |-> x1, y |-> y1,
        width |-> Minus(x2, x1), height |-> Minus(y2, y1)]

\* setRectangles(prev => ({...prev, [mode]: [...prev[mode], newRect]}))
AddRect(rects, m, newRect) == [rects EXCEPT ![m] = Append(rects[m], newRect)]

StoreSize == Len(rectangles.slots) + Len(rectangles.illegal)

\* Lines 86-97: a stored rectangle in canvas coordinates, with
\* scaleX = canvas.width / image.naturalWidth and
\* scaleY = canvas.height / image.naturalHeight
ToDisplay(rect, nat) ==
    LET scaleX == Over(CanvasWidth, nat.w)
        scaleY == Over(CanvasHeight, nat.h)
    IN [id |-> rect.id,
        x |-> Times(rect.x, scaleX), y |-> Times(rect.y, scaleY),
        width |-> Times(rect.width, scaleX), height |-> Times(rect.height, scaleY)]

\* drawCanvas(), lines 66-107: what is stroked on the canvas for the stored
\* rectangles of the current mode, in the order of drawing
drawCanvas(rects, m, complete, nat) ==
    IF ~complete \/ nat.w = 0 \/ nat.h = 0 THEN <<>>
    ELSE [i \in 1..Len(rects[m]) |-> ToDisplay(rects[m][i], nat)]

\* (mutant) the drawing flag is reset but the rectangle is kept
EndDrawingKeepsRect ==
    /\ isDrawing' = FALSE
    /\ UNCHANGED currentRect

\* setIsDrawing(false); setCurrentRect(null)
EndDrawing ==
    /\ isDrawing' = FALSE
    /\ currentRect' = Null

\* handleMouseDown(e), lines 141-151
handleMouseDown ==
    \E pos \in Positions :
        /\ calMounted
        /\ isDrawing' = TRUE
        /\ currentRect' = [startX |-> pos.x, startY |-> pos.y,
                           endX |-> pos.x, endY |-> pos.y]
        /\ lastOp' = [op |-> "mouseDown", threw |-> FALSE]
        /\ UNCHANGED <<mode, rectangles, image, loadPending, saving>>
        /\ UNCHANGED <<provider, backend, home, topnav, livefeed, banners, calMounted>>

\* (mutant) the mouse move is handled in every state of the editor
MoveAppliesAlways == TRUE

\* Line 154: if (!isDrawing || !currentRect) return
MoveApplies == isDrawing /\ currentRect # Null

\* {...currentRect}: spreading null gives an object without the fields
Spread(rect) ==
    IF rect = Null
    THEN [startX |-> Undefined, startY |-> Undefined,
          endX |-> Undefined, endY |-> Undefined]
    ELSE rect

\* handleMouseMove(e), lines 153-162
handleMouseMove ==
    \E pos \in Positions :
        /\ calMounted
        /\ IF MoveApplies
           THEN currentRect' = [Spread(currentRect) EXCEPT !.endX = pos.x, !.endY = pos.y]
           ELSE UNCHANGED currentRect
        /\ lastOp' = [op |-> "mouseMove", threw |-> FALSE]
        /\ UNCHANGED <<mode, rectangles, isDrawing, image, loadPending, saving>>
        /\ UNCHANGED <<provider, backend, home, topnav, livefeed, banners, calMounted>>

\* Line 165: if (!isDrawing || !currentRect) return
UpApplies == isDrawing /\ currentRect # Null

\* handleMouseUp(e), lines 164-211.  prompt() is asked only for a rectangle
\* that passes the test of line 192; what it returns is the operator's.
handleMouseUp ==
    \E pos \in Positions, id \in PromptAnswers :
        LET c        == CanvasCorners(currentRect, pos)
            measured == UpApplies /\ imageComplete
            prompted == measured /\ LargeEnough(c)
        IN /\ calMounted
           /\ prompted \/ id = Null
           /\ IF ~UpApplies THEN UNCHANGED <<isDrawing, currentRect>> ELSE EndDrawing
           /\ IF prompted /\ Accepted(id)
              THEN /\ StoreSize < MaxRects
                   /\ rectangles' = AddRect(rectangles, mode, NewRect(id, c, natural))
              ELSE UNCHANGED rectangles
           /\ lastOp' = [op |-> "mouseUp", threw |-> FALSE, drawing |-> isDrawing,
                         pos |-> pos, prompted |-> prompted, id |-> id]
           /\ UNCHANGED <<mode, image, loadPending, saving>>
           /\ UNCHANGED <<provider, backend, home, topnav, livefeed, banners, calMounted>>

\* (mutant) the container has no onMouseLeave handler
onMouseLeaveIgnored ==
    /\ calMounted
    /\ lastOp' = [op |-> "mouseLeave", threw |-> FALSE, drawing |-> isDrawing]
    /\ UNCHANGED <<isDrawing, currentRect>>
    /\ UNCHANGED <<mode, rectangles, image, loadPending, saving>>
    /\ UNCHANGED <<provider, backend, home, topnav, livefeed, banners, calMounted>>

\* onMouseLeave of the container, lines 329-332
onMouseLeave ==
    /\ calMounted
    /\ EndDrawing
    /\ lastOp' = [op |-> "mouseLeave", threw |-> FALSE, drawing |-> isDrawing]
    /\ UNCHANGED <<mode, rectangles, image, loadPending, saving>>
    /\ UNCHANGED <<provider, backend, home, topnav, livefeed, banners, calMounted>>

\* The mode buttons: setMode('slots'), setMode('illegal')
setMode ==
    \E m \in {"slots", "illegal"} :
        /\ calMounted
        /\ m # mode
        /\ mode' = m
        /\ lastOp' = [op |-> "setMode", threw |-> FALSE]
        /\ UNCHANGED <<rectangles, currentRect, isDrawing, image, loadPending, saving>>
        /\ UNCHANGED <<provider, backend, home, topnav, livefeed, banners, calMounted>>

\* (mutant) every rectangle with the id of the chosen one goes
DeleteById(list, index) ==
    IF index \in 1..Len(list)
    THEN SelectSeq(list, LAMBDA r : r.id # list[index].id)
    ELSE list

\* list.filter((_, i) => i !== index), from position `from` on
RECURSIVE FilterIndex(_, _, _)
FilterIndex(list, index, from) ==
    IF from > Len(list) THEN <<>>
    ELSE (IF from # index THEN <<list[from]>> ELSE <<>>)
             \o FilterIndex(list, index, from + 1)

\* prev[mode].filter((_, i) => i !== index)
DeleteAt(list, index) == FilterIndex(list, index, 1)

\* handleDelete(index), lines 213-220, from the button of a listed rectangle
handleDelete ==
    \E index \in 1..Len(rectangles[mode]), confirmed \in BOOLEAN :
        /\ calMounted
        /\ rectangles' = IF confirmed
                         THEN [rectangles EXCEPT ![mode] = DeleteAt(rectangles[mode], index)]
                         ELSE rectangles
        /\ lastOp' = [op |-> "handleDelete", threw |-> FALSE, confirmed |-> confirmed,
                      index |-> index]
        /\ UNCHANGED <<mode, currentRect, isDrawing, image, loadPending, saving>>
        /\ UNCHANGED <<provider, backend, home, topnav, livefeed, banners, calMounted>>

-----------------------------------------------------------------------------
(* Calibration page: loading and saving.  On the wire a collection is an
   object from id to [x1, y1, x2, y2]. *)

\* The ids of the rectangles the backend holds
StoredIds == << <<"S", "1">>, <<"S", "2">> >>

Array(items) == [kind |-> "array", items |-> items]

\* What the backend may hold under an id: corners in order (two such),
\* corners in reverse order, three numbers only, a text where a number should
\* be, null
CoordValues ==
    { Array(<<Whole(1), Whole(2), Whole(4), Whole(6)>>),
      Array(<<Whole(0), Whole(0), Whole(2), Whole(3)>>),
      Array(<<Whole(4), Whole(6), Whole(1), Whole(2)>>),
      Array(<<Whole(1), Whole(2), Whole(4)>>),
      Array(<<[kind |-> "string", chars |-> <<"a">>], Whole(2), Whole(4), Whole(6)>>),
      Null }

\* The objects over some of StoredIds with at most n entries
Collections(n) ==
    UNION { { [kind |-> "obj",
               entries |-> [i \in 1..Len(ks) |-> <<StoredIds[ks[i]], vs[i]>>]] :
                 vs \in [1..Len(ks) -> CoordValues] } :
            ks \in { k \in SeqsUpTo(1..Len(StoredIds), n) :
                       \A i \in 1..(Len(k) - 1) : k[i] < k[i + 1] } }

\* What await getCalibration() gives: an object with the two collections,
\* one of them null, or a rejection
CalibrationResponses ==
    { [kind |-> "obj", parking_slots |-> s, illegal_zones |-> z] :
        s \in Collections(MaxRects), z \in Collections(1) }
    \cup { [kind |-> "obj", parking_slots |-> Null,
            illegal_zones |-> [kind |-> "obj", entries |-> <<>>]],
           [kind |-> "rejected"] }

\* Line 34: Array.isArray(coords) && coords.length === 4
IsArray4(coords) == coords.kind = "array" /\ Len(coords.items) = 4

\* (mutant) the far corner is kept as width and height
LoadedRectCorners(id, coords) ==
    [id |-> id, x |-> coords.items[1], y |-> coords.items[2],
     width |-> coords.items[3], height |-> coords.items[4]]

\* Lines 35-41
LoadedRect(id, coords) ==
    [id |-> id, x |-> coords.items[1], y |-> coords.items[2],
     width |-> Minus(coords.items[3], coords.items[1]),
     height |-> Minus(coords.items[4], coords.items[2])]

\* Object.entries(...).map(...).filter(Boolean), lines 33-44 and 46-57
RECURSIVE LoadEntries(_)
LoadEntries(entries) ==
    IF entries = <<>> THEN <<>>
    ELSE (IF IsArray4(Head(entries)[2])
          THEN <<LoadedRect(Head(entries)[1], Head(entries)[2])>>
          ELSE <<>>) \o LoadEntries(Tail(entries))

\* Line 32: if (data.parking_slots && data.illegal_zones)
HasCollections(data) ==
    data.kind = "obj" /\ data.parking_slots # Null /\ data.illegal_zones # Null

\* loadCalibration(), lines 29-64, from the answer of getCalibration() on.
\* The call itself is made by the effect of the first render.
loadCalibration ==
    \E data \in CalibrationResponses :
        /\ loadPending
        /\ loadPending' = FALSE
        /\ rectangles' =
              IF calMounted /\ HasCollections(data)
              THEN [slots |-> LoadEntries(data.parking_slots.entries),
                    illegal |-> LoadEntries(data.illegal_zones.entries)]
              ELSE rectangles
        /\ lastOp' = [op |-> "loadCalibration", threw |-> FALSE, data |-> data]
        /\ UNCHANGED <<mode, currentRect, isDrawing, image, saving>>
        /\ UNCHANGED <<provider, backend, home, topnav, livefeed, banners, calMounted>>

\* Lines 233-238 and 242-247, as JSON.stringify writes them
RoundedCorners(rect) ==
    << Json(MathRound(rect.x)), Json(MathRound(rect.y)),
       Json(MathRound(Plus(rect.x, rect.width))),
       Json(MathRound(Plus(rect.y, rect.height))) >>

\* list.forEach(rect => { object[rect.id] = [...] })
RECURSIVE Serialize(_, _)
Serialize(list, object) ==
    IF list = <<>> THEN object
    ELSE Serialize(Tail(list), MapPut(object, Head(list).id, RoundedCorners(Head(list))))

\* calibrationData, lines 227-248
calibrationData(rects) ==
    [parking_slots |-> Serialize(rects.slots, EmptyMap),
     illegal_zones |-> Serialize(rects.illegal, EmptyMap)]

\* (mutant) the save button is never disabled
SaveEnabledAlways == TRUE

\* Line 299: disabled={isSaving}
SaveEnabled == ~isSaving

\* (mutant) the success message of an earlier save is left standing
ResetSuccessSkipped == UNCHANGED saveSuccess

\* Line 224: setSaveSuccess(false)
ResetSuccess == saveSuccess' = FALSE

\* handleSave(), lines 222-250, up to await calibrate(...), from the save
\* button
handleSave ==
    /\ calMounted
    /\ SaveEnabled
    /\ saveCalls < MaxSaves
    /\ isSaving' = TRUE
    /\ ResetSuccess
    /\ saveCalls' = saveCalls + 1
    /\ savesInFlight' = savesInFlight + 1
    /\ lastOp' = [op |-> "handleSave", threw |-> FALSE,
                  body |-> calibrationData(rectangles)]
    /\ UNCHANGED <<mode, rectangles, currentRect, isDrawing, image, loadPending,
                   successTimers>>
    /\ UNCHANGED <<provider, backend, home, topnav, livefeed, banners, calMounted>>

\* calibrate(...) settles, lines 251-258: the message and its 3 s timer on
\* success, the alert on a rejection (api.js 50-63: no answer, or an answer
\* that is not 2xx), and setIsSaving(false) in either case.  The setters
\* of a page that is unmounted set nothing; the timer is set all the same.
SaveResponse ==
    \E ok \in BOOLEAN :
        /\ savesInFlight > 0
        /\ savesInFlight' = savesInFlight - 1
        /\ isSaving' = (isSaving /\ ~calMounted)
        /\ saveSuccess' = IF ok /\ calMounted THEN TRUE ELSE saveSuccess
        /\ successTimers' = IF ok THEN successTimers + 1 ELSE successTimers
        /\ lastOp' = [op |-> IF ok THEN "saved" ELSE "saveFailed", threw |-> FALSE,
                      alert |-> ~ok]
        /\ UNCHANGED <<mode, rectangles, currentRect, isDrawing, image, loadPending,
                       saveCalls>>
        /\ UNCHANGED <<provider, backend, home, topnav, livefeed, banners, calMounted>>

\* Line 252: setTimeout(() => setSaveSuccess(false), 3000) fires; nothing
\* clears the timer
SuccessTimer ==
    /\ successTimers > 0
    /\ successTimers' = successTimers - 1
    /\ saveSuccess' = (saveSuccess /\ ~calMounted)
    /\ lastOp' = [op |-> "successTimer", threw |-> FALSE]
    /\ UNCHANGED <<mode, rectangles, currentRect, isDrawing, image, loadPending,
                   isSaving, saveCalls, savesInFlight>>
    /\ UNCHANGED <<provider, backend, home, topnav, livefeed, banners, calMounted>>

\* The operator leaves the Calibration page.  The page has no cleanup: a
\* request in flight still settles and a 3 s timer still fires, and what
\* they set is the state of a page that is no longer there.
CalibrationUnmount ==
    /\ calMounted
    /\ calMounted' = FALSE
    /\ lastOp' = [op |-> "calibrationUnmount", threw |-> FALSE]
    /\ UNCHANGED <<mode, rectangles, currentRect, isDrawing, image, loadPending, saving>>
    /\ UNCHANGED <<provider, backend, home, topnav, livefeed, banners>>

\* The image of the feed has loaded (onLoad, lines 339-342, or the
\* placeholder set by onError)
ImageLoad ==
    \E nat \in NaturalSizes :
        /\ calMounted
        /\ ~imageComplete
        /\ imageComplete' = TRUE
        /\ natural' = nat
        /\ lastOp' = [op |-> "imageLoad", threw |-> FALSE]
        /\ UNCHANGED <<mode, rectangles, currentRect, isDrawing, loadPending, saving>>
        /\ UNCHANGED <<provider, backend, home, topnav, livefeed, banners, calMounted>>

\* A render gives the image a new src (line 261: '?t=' + Date.now()), and
\* the image is loading again
ImageReload ==
    /\ calMounted
    /\ imageComplete
    /\ imageComplete' = FALSE
    /\ lastOp' = [op |-> "imageReload", threw |-> FALSE]
    /\ UNCHANGED <<mode, rectangles, currentRect, isDrawing, natural, loadPending,
                   saving>>
    /\ UNCHANGED <<provider, backend, home, topnav, livefeed, banners, calMounted>>

-----------------------------------------------------------------------------
(* LiveFeed: where the overlay draws, lines 116-130 and 134-139, 169-174 *)

\* img.clientWidth and img.clientHeight: the box the img is laid out in
ClientWidth == 40

ClientHeight == 30

\* img.width and img.height: the rendered size of the img, which is the size
\* of its box (className "w-full h-full", no border, no padding)
ImgWidth == ClientWidth

ImgHeight == ClientHeight

\* The last operands of lines 117 and 118
DefaultNaturalWidth == 1280

DefaultNaturalHeight == 720

\* a || b || c on numbers: 0 is falsy
NumOr(a, b, c) == IF a # 0 THEN a ELSE IF b # 0 THEN b ELSE c

\* Lines 117-130: scaleX = dispW / naturalW, scaleY = dispH / naturalH, with
\* naturalW = img.naturalWidth || img.width || 1280 and
\* naturalH = img.naturalHeight || img.height || 720
OverlayScale(nat) ==
    LET naturalW == NumOr(nat.w, ImgWidth, DefaultNaturalWidth)
        naturalH == NumOr(nat.h, ImgHeight, DefaultNaturalHeight)
    IN [x |-> Over(ClientWidth, naturalW), y |-> Over(ClientHeight, naturalH)]

\* Lines 135-139 and 170-174: the rectangle stroked for an entry
OverlayRect(id, coords, scale) ==
    [id |-> id,
     sx |-> MathRound(Times(Whole(coords[1]), scale.x)),
     sy |-> MathRound(Times(Whole(coords[2]), scale.y)),
     sw |-> MathRound(Times(Whole(coords[3] - coords[1]), scale.x)),
     sh |-> MathRound(Times(Whole(coords[4] - coords[2]), scale.y))]

\* The rectangles drawOverlay() strokes for the entries of a collection, the
\* first `drawn` of them
OverlayRects(collection, drawn, nat) ==
    IF collection = Null THEN <<>>
    ELSE [i \in 1..drawn |->
             OverlayRect(collection.entries[i][1], collection.entries[i][2],
                         OverlayScale(nat))]

\* What the canvas shows of the slots and of the zones.  Every change of
\* the four states draws again, and so does every load of a frame.
OverlaySlotRects ==
    OverlayRects(lfCalibratedSlots, Len(Overlay.slots), lfNatural)

OverlayZoneRects ==
    OverlayRects(lfIllegalZones, Len(Overlay.zones), lfNatural)

\* The frame of the feed has loaded into LiveFeed's img: handleImageLoad,
\* lines 102-104, draws the overlay again
LiveFeedImageLoad ==
    \E nat \in NaturalSizes :
        /\ lfMounted
        /\ nat # lfNatural
        /\ lfNatural' = nat
        /\ UNCHANGED <<banners, calibration, provider, backend, home, topnav, lfMounted>>
        /\ UNCHANGED <<lfSlotCalls, lfViolationCalls, lfCalibrationCalls, overlay>>
        /\ lastOp' = [op |-> "liveFeedImageLoad", threw |-> Overlay'.threw]

-----------------------------------------------------------------------------
(* License plates on the screen.  A plate is the sequence of its characters;
   a text that a view puts in the place of a plate is a sequence of one
   element. *)

\* The plates of the vehicles: "GOVT" and "ROYAL" in upper, lower and mixed
\* case, cut short and split, at the start, in the middle and at the end
PlateCores ==
    { <<"G", "O", "V", "T">>, <<"g", "o", "v", "t">>, <<"G", "o", "v", "t">>,
      <<"R", "O", "Y", "A", "L">>, <<"r", "o", "y", "a", "l">>,
      <<"R", "o", "Y", "a", "L">>,
      <<"G", "O", "V">>, <<"R", "O", "Y", "A">>, <<"G", "O", "-", "V", "T">>,
      <<"1", "2", "3", "4">> }

PlatePrefixes == { <<>>, <<"B", "P", "-">>, <<"G">>, <<"r", "o">> }

PlateSuffixes == { <<>>, <<"-", "7">>, <<"T">> }

Plates ==
    {<<>>} \cup { pre \o core \o suf :
                    pre \in PlatePrefixes, core \in PlateCores, suf \in PlateSuffixes }

\* String.prototype.toUpperCase, character by character
UpperChar(c) ==
    CASE c = "g" -> "G" [] c = "o" -> "O" [] c = "v" -> "V" [] c = "t" -> "T"
      [] c = "r" -> "R" [] c = "y" -> "Y" [] c = "a" -> "A" [] c = "l" -> "L"
      [] OTHER   -> c

ToUpperChars(str) == [i \in 1..Len(str) |-> UpperChar(str[i])]

Anonymized == <<"***ANONYMIZED***">>

\* maskPlate(plate) of ViolationsTable (part_003 lines 7-14) and of the IMEM
\* table (part_004 lines 38-45), the same function twice
maskPlate(plate) ==
    IF plate = <<>> THEN <<"N/A">>
    ELSE LET plateUpper == ToUpperChars(plate) IN
         IF Includes(plateUpper, <<"G", "O", "V", "T">>)
            \/ Includes(plateUpper, <<"R", "O", "Y", "A", "L">>)
         THEN Anonymized
         ELSE plate

\* a || b on strings: the empty string is falsy
TextOr(a, b) == IF a # <<>> THEN a ELSE b

\* What each view shows for a plate:
\*   IMEM table               part_004 line 260  maskPlate(row.Plate)
\*   violations table         part_003 line 44   maskPlate(violation.plate)
\*   Home's violation cards   part_002 line 373  violation.license_plate || 'Unknown Plate'
\*   notification center      part_003 line 205  violation.license_plate || 'Unknown Plate'
\*   notification message     part_000 line 119  violation.license_plate || 'Unknown'
\*   slot card                SlotCard.js 63-68  plate, when there is one
PlateViews(plate) ==
    [imem     |-> maskPlate(plate),
     table    |-> maskPlate(plate),
     card     |-> TextOr(plate, <<"Unknown Plate">>),
     center   |-> TextOr(plate, <<"Unknown Plate">>),
     message  |-> TextOr(plate, <<"Unknown">>),
     slotCard |-> plate]

\* A render of the views with a vehicle of some plate on them
RenderPlate ==
    \E plate \in Plates :
        /\ lastOp' = [op |-> "renderPlate", threw |-> FALSE, plate |-> plate,
                      views |-> PlateViews(plate)]
        /\ UNCHANGED <<provider, backend, home, topnav, livefeed, banners, calibration>>

-----------------------------------------------------------------------------
(* Specifications *)

\* The pages around the provider after the first render: every effect has
\* run once.
ViewsInit ==
    /\ homeMounted = TRUE
    /\ homeAwaitStats = 1
    /\ homeAwaitSlots = <<>>
    /\ homePreviousStats = Null
    /\ homeBanners = <<>>
    /\ tnInterval = TRUE
    /\ tnIsPolling = FALSE
    /\ tnPolls = 0
    /\ tnInits = 1
    /\ lfMounted = TRUE
    /\ lfSlotCalls = 1
    /\ lfViolationCalls = 1
    /\ lfCalibrationCalls = 1
    /\ OverlayInit
    /\ lfNatural = NotLoaded
    /\ fadeTimers = {}
    /\ CalibrationInit

\* The same over a parking lot that is empty and without violations
PagesInit ==
    /\ backend = [slots |-> [kind |-> "array", items |-> <<>>],
                  violations |-> [kind |-> "array", items |-> <<>>],
                  stats |-> [occupancy |-> 0, activeViolations |-> 0]]
    /\ ViewsInit

\* The console after its first render
Init == ProviderInit /\ PagesInit

\* The slots of a parking lot, and the snapshots of any part of it that a
\* first call of checkSlotChanges leaves in slotStatus and prevSlotsRef
LotIds == <<"A1", "A2", "A3", "A4", "A5">>

LotValues == {Null, [kind |-> "obj", isOccupied |-> TRUE],
                    [kind |-> "obj", isOccupied |-> FALSE]}

LotSnapshots ==
    UNION { { [i \in 1..Len(ks) |-> <<LotIds[ks[i]], vs[i]>>] :
                vs \in [1..Len(ks) -> LotValues] } :
            ks \in { k \in SeqsUpTo(1..MaxLot, MaxLot) :
                       \A i \in 1..(Len(k) - 1) : k[i] < k[i + 1] } }

InitStatistics ==
    /\ \E m \in LotSnapshots : slotStatus = m /\ prevSlots = m
    /\ notifications = <<>>
    /\ timers = <<>>
    /\ nextId = 1
    /\ activeViolations = <<>>
    /\ prevViolations = <<>>
    /\ lastOp = [op |-> "init", threw |-> FALSE]
    /\ PagesInit

\* The statistics of the live mapping, recomputed at every render
NextStatistics == GetSlotStatistics \/ CallCheckSlotChanges

SpecStatistics == InitStatistics /\ [][NextStatistics]_vars

\* The notification list: added to, dismissed from, expiring
NextNotifications == CallAddNotification \/ RemoveNotification \/ ExpireNotification

SpecNotifications == Init /\ [][NextNotifications]_vars

\* The notification list with TopNav's banners over it
NextCenter ==
    \/ CallAddNotification
    \/ RemoveNotification
    \/ ExpireNotification
    \/ BannerDismissTimer
    \/ BannerHandleDismiss
    \/ BannerFade

SpecCenter == Init /\ [][NextCenter]_vars

\* Those who remove a notification by themselves or for the operator: the
\* panel's dismiss button, the 10 s expiry, the banner's 8 s timer
NextRemovers ==
    \/ CallAddNotification
    \/ RemoveNotification
    \/ ExpireNotification
    \/ BannerDismissTimer
    \/ BannerFade

SpecRemovers == Init /\ [][NextRemovers]_vars

\* The same with the operator away: notifications arrive and timers fire.
\* A setTimeout that is pending fires: the 10 s expiry of every notification.
NextUnattended ==
    \/ CallAddNotification
    \/ ExpireNotification
    \/ BannerDismissTimer
    \/ BannerFade

SpecUnattended == Init /\ [][NextUnattended]_vars /\ WF_vars(ExpireNotification)

\* Timers and what they act on: the banners of notifications that expire or
\* that the operator closes, and the Calibration page that the operator
\* saves on and leaves
NextTeardown ==
    \/ CallAddNotification
    \/ ExpireNotification
    \/ BannerHandleDismiss
    \/ BannerFade
    \/ handleSave
    \/ SaveResponse
    \/ SuccessTimer
    \/ CalibrationUnmount

SpecTeardown == Init /\ [][NextTeardown]_vars

\* The views rendered with the plates of the vehicles
NextPlates == RenderPlate

SpecPlates == Init /\ [][NextPlates]_vars

\* The Calibration page as an editor: the operator draws, deletes, switches
\* mode, while the image of the feed loads again and again
NextCalibration ==
    \/ handleMouseDown
    \/ handleMouseMove
    \/ handleMouseUp
    \/ onMouseLeave
    \/ setMode
    \/ handleDelete
    \/ ImageLoad
    \/ ImageReload

SpecCalibration == Init /\ [][NextCalibration]_vars

\* The Calibration page while rectangles are committed in both modes over
\* images of different natural sizes: handleMouseUp reads the start of the
\* drag and the position of the mouseup only, so the moves in between are
\* left to SpecCalibration
NextScaling ==
    \/ handleMouseDown
    \/ handleMouseUp
    \/ setMode
    \/ ImageLoad
    \/ ImageReload

SpecScaling == Init /\ [][NextScaling]_vars

\* The Calibration page while the operator saves: rectangles are drawn and
\* deleted, requests are sent and settle, the success message times out
NextSaving ==
    \/ handleMouseDown
    \/ handleMouseUp
    \/ handleDelete
    \/ ImageLoad
    \/ handleSave
    \/ SaveResponse
    \/ SuccessTimer

SpecSaving == Init /\ [][NextSaving]_vars

\* The Calibration page from its mount on: the stored calibration arrives,
\* the operator looks at both collections, deletes, saves
NextLoading ==
    \/ loadCalibration
    \/ setMode
    \/ handleDelete
    \/ handleSave
    \/ SaveResponse

SpecLoading == Init /\ [][NextLoading]_vars

\* The Calibration page while the stored calibration is still on its way:
\* the image loads, the operator draws and deletes, the answer arrives
NextArrival ==
    \/ ImageLoad
    \/ handleMouseDown
    \/ handleMouseUp
    \/ handleDelete
    \/ loadCalibration

SpecArrival == Init /\ [][NextArrival]_vars

\* The provider's slot diff, called with any payload
NextSlots == CallCheckSlotChanges \/ ExpireNotification

SpecSlots == Init /\ [][NextSlots]_vars

\* The provider's violation diff, called with any payload
NextViolations == CallCheckViolationChanges \/ ExpireNotification

SpecViolations == Init /\ [][NextViolations]_vars

\* The Home page polling the backend
NextHome ==
    \/ BackendSlotsChange
    \/ BackendViolationsChange
    \/ HomeTick
    \/ HomeStatsResponse
    \/ HomeSlotsResponse
    \/ HomeUnmount
    \/ HomeMount
    \/ ExpireNotification

SpecHome == Init /\ [][NextHome]_vars

\* TopNav polling the backend
NextTopNav ==
    \/ BackendSlotsChange
    \/ BackendViolationsChange
    \/ TopNavTick
    \/ TopNavPollResponse
    \/ TopNavInitResponse
    \/ ExpireNotification

SpecTopNav == Init /\ [][NextTopNav]_vars

\* The three pollers together: when each request starts and settles, the
\* operator entering and leaving the Home page, against a backend at rest
NextPollers ==
    \/ HomeTick
    \/ HomeStatsResponse
    \/ HomeSlotsResponse
    \/ HomeUnmount
    \/ HomeMount
    \/ TopNavTick
    \/ TopNavPollResponse
    \/ TopNavInitResponse
    \/ LiveFeedTick
    \/ LiveFeedSlotsResponse
    \/ LiveFeedViolationsResponse
    \/ LiveFeedCalibrationResponse
    \/ LiveFeedUnmount
    \/ LiveFeedMount

SpecPollers == Init /\ [][NextPollers]_vars

\* LiveFeed alone over a backend that changes: what its overlay shows
NextOverlay ==
    \/ BackendSlotsChange
    \/ BackendViolationsChange
    \/ LiveFeedTick
    \/ LiveFeedSlotsResponse
    \/ LiveFeedViolationsResponse
    \/ LiveFeedCalibrationResponse
    \/ LiveFeedUnmount
    \/ LiveFeedMount

SpecOverlay == Init /\ [][NextOverlay]_vars

\* The two canvases while their images load: the calibration arrives at
\* LiveFeed, the operator draws on the Calibration page
NextFrames ==
    \/ LiveFeedCalibrationResponse
    \/ LiveFeedImageLoad
    \/ handleMouseDown
    \/ handleMouseUp
    \/ ImageLoad
    \/ ImageReload

SpecFrames == Init /\ [][NextFrames]_vars

\* The two pollers that feed the provider, on the Home page, over a parking
\* lot in which nothing changes: the console starts on some state of the
\* slots, and that state stays
InitSteady ==
    /\ ProviderInit
    /\ \E slots \in BackendSlots :
           backend = [slots |-> slots,
                      violations |-> [kind |-> "array", items |-> <<>>],
                      stats |-> [occupancy |-> 0, activeViolations |-> 0]]
    /\ ViewsInit

NextSteady ==
    \/ HomeTick
    \/ HomeStatsResponse
    \/ HomeSlotsResponse
    \/ TopNavTick
    \/ TopNavPollResponse
    \/ TopNavInitResponse

SpecSteady == InitSteady /\ [][NextSteady]_vars

\* Timers fire and requests settle: setInterval keeps firing while it is
\* set, and fetch resolves or rejects.
FairPolling ==
    /\ WF_vars(HomeTick)
    /\ WF_vars(HomeStatsResponse)
    /\ WF_vars(HomeSlotsResponse)
    /\ WF_vars(TopNavTick)
    /\ WF_vars(TopNavPollResponse)
    /\ WF_vars(TopNavInitResponse)

\* The same two pollers with their scheduling: whatever the backend serves,
\* a request may fail or succeed each time.  The expiry timers of the
\* notifications are left to SpecUnattended: a poller never reads them.
SpecPolling == InitSteady /\ [][NextSteady]_vars /\ FairPolling

\* Home's poller over statistics that change
NextBanners ==
    \/ BackendStatsChange
    \/ HomeTick
    \/ HomeStatsResponse
    \/ HomeSlotsResponse

SpecBanners == Init /\ [][NextBanners]_vars

-----------------------------------------------------------------------------
(* What a step added *)

\* The notifications a step added: those whose id was not yet given out.
AddedBy(list, from) == SelectSeq(list, LAMBDA n : n.id >= from)

Added == AddedBy(notifications', nextId)

AddedSlot(type, slotId) ==
    Len(SelectSeq(Added, LAMBDA n : n.type = type /\ n.data = [slotId |-> slotId]))

\* A snapshot holds a slot state for the id (a null value is no slot state).
SlotIn(m, slotId) == MapHas(m, slotId) /\ MapGet(m, slotId) # Null

SlotCallCompleted == lastOp'.op = "checkSlotChanges" /\ ~lastOp'.threw

-----------------------------------------------------------------------------
(* Claims *)

\* C1: a completed checkSlotChanges adds, for every slot id that has a state
\* in the previous and in the current snapshot, exactly one slot_occupied
\* when the slot went from free to occupied, exactly one slot_available when
\* it went from occupied to free, none when the occupancy is equal; and it
\* adds nothing else.
C1_SlotTransitions ==
    [][SlotCallCompleted =>
         /\ \A slotId \in SlotIds :
               (SlotIn(prevSlots, slotId) /\ SlotIn(prevSlots', slotId)) =>
                   LET was == MapGet(prevSlots, slotId).isOccupied
                       is == MapGet(prevSlots', slotId).isOccupied
                   IN /\ AddedSlot("slot_occupied", slotId) = IF ~was /\ is THEN 1 ELSE 0
                      /\ AddedSlot("slot_available", slotId) = IF was /\ ~is THEN 1 ELSE 0
         /\ Len(Added) = Cardinality({slotId \in SlotIds :
                             /\ SlotIn(prevSlots, slotId) /\ SlotIn(prevSlots', slotId)
                             /\ MapGet(prevSlots, slotId).isOccupied
                                  # MapGet(prevSlots', slotId).isOccupied})]_vars

\* C1 witness: the last call completed and the newest notification says that
\* a slot became occupied.
C1_Witness ==
    /\ lastOp = [op |-> "checkSlotChanges", threw |-> FALSE]
    /\ notifications # <<>>
    /\ notifications[1].type = "slot_occupied"
    /\ notifications[1].id = nextId - 1

NewestFirst(list) == \A i, j \in 1..Len(list) : i < j => list[i].id > list[j].id

\* C10: addNotification puts the new notification first and leaves the others
\* as they were, in their order; and the list is always ordered most recently
\* added first.
C10_Prepends ==
    [][/\ lastOp'.op = "addNotification" =>
             /\ notifications' # <<>>
             /\ notifications'[1].id = nextId
             /\ Tail(notifications') = notifications
       /\ NewestFirst(notifications')]_vars

\* C10 witness: three notifications are listed, one was dismissed or expired
\* before the last was added.
C10_Witness ==
    /\ lastOp.op = "addNotification"
    /\ Len(notifications) = 3
    /\ nextId = 5

\* The identity rule of the data model: two violations are the same entity if
\* they share an id or, when one of them has no id, if license_plate and
\* timestamp both match.
SameEntity(a, b) ==
    IF a.id # Undefined /\ b.id # Undefined
    THEN a.id = b.id
    ELSE a.license_plate = b.license_plate /\ a.timestamp = b.timestamp

ViolationData(v) ==
    [violationId |-> v.id, licensePlate |-> v.license_plate, timestamp |-> v.timestamp]

AddedViolation(v) ==
    Len(SelectSeq(Added, LAMBDA n : n.type = "illegal_parking" /\ n.data = ViolationData(v)))

ViolationCallCompleted == lastOp'.op = "checkViolationChanges" /\ ~lastOp'.threw

\* C2: a completed checkViolationChanges adds an illegal_parking notification
\* for every violation of the current list that is the same entity as no
\* violation of the previous list, an id-less one included whose plate or
\* timestamp differs from every previous id-less violation.
C2_NewViolationNotified ==
    [][ViolationCallCompleted =>
         \A i \in 1..Len(prevViolations') :
            (\A j \in 1..Len(prevViolations) :
                 ~SameEntity(prevViolations[j], prevViolations'[i]))
              => AddedViolation(prevViolations'[i]) >= 1]_vars

\* seq with its i-th element left out
Without(seq, i) == SubSeq(seq, 1, i - 1) \o SubSeq(seq, i + 1, Len(seq))

\* C3: when the current list is the previous list plus one entry whose id
\* occurs in no previous entry, a completed checkViolationChanges adds exactly
\* one illegal_parking notification, whatever the plate and timestamp of the
\* new entry.
C3_FreshIdNotifiedOnce ==
    [][ViolationCallCompleted =>
         \A i \in 1..Len(prevViolations') :
            ( /\ Without(prevViolations', i) = prevViolations
              /\ prevViolations'[i].id # Undefined
              /\ \A j \in 1..Len(prevViolations) :
                     prevViolations[j].id # prevViolations'[i].id )
              => Len(Added) = 1]_vars

-----------------------------------------------------------------------------
(* The pollers' handlers, seen from the provider *)

\* The slot with the status string "occupied" that the backend serves
ServedOccupied ==
    IF backend.slots.kind = "array"
    THEN {i \in 1..Len(backend.slots.items) :
             /\ backend.slots.items[i] # Null
             /\ backend.slots.items[i].status = "occupied"}
    ELSE {}

ServedKey(i) == JsOr(backend.slots.items[i].id, backend.slots.items[i].slotId)

\* A poll path handed the slots of the backend to the provider and returned
SlotPollCompleted ==
    /\ lastOp'.op \in {"homeSlots", "topnavPoll", "topnavInit"}
    /\ ~lastOp'.threw

\* C4: a slot whose state is the string status "occupied" is recorded with
\* isOccupied = true by every poll path, Home's as well as TopNav's.
C4_StatusOccupiedRecorded ==
    [][SlotPollCompleted =>
         \A i \in ServedOccupied :
             /\ SlotIn(prevSlots', ServedKey(i))
             /\ MapGet(prevSlots', ServedKey(i)).isOccupied]_vars

\* A TopNav handler ran (to its end or to a throw) on what the backend serves
TopNavHandled == lastOp'.op \in {"topnavPoll", "topnavInit"}

\* The slot diff of the handler does not throw on what the backend serves
SlotsReadable ==
    \/ backend.slots.kind # "array"
    \/ \A i \in 1..Len(backend.slots.items) : backend.slots.items[i] # Null

\* C5: the previous snapshot becomes the current one even when the diff
\* throws part-way, so that the next poll does not emit the same event again.
C5_SnapshotStoredOnThrow ==
    [][(TopNavHandled /\ SlotsReadable /\ backend.violations.kind = "array") =>
          prevViolations' = backend.violations.items]_vars

\* The snapshots a completed TopNav handler processed
ProcessedSlots == NormalizeSlots(backend.slots).map

ProcessedViolations == backend.violations.items

TopNavCompleted == TopNavHandled /\ ~lastOp'.threw

\* C6: after a completed call the previous snapshot is the snapshot the call
\* processed, and processing the same snapshot again adds no notification.
C6_SnapshotIsLastProcessed ==
    [][TopNavCompleted =>
         /\ backend.slots.kind = "array" =>
               /\ prevSlots' = ProcessedSlots
               /\ slotStatus' = ProcessedSlots
               /\ prevSlots = ProcessedSlots =>
                     \A n \in 1..Len(Added) : Added[n].type = "illegal_parking"
         /\ backend.violations.kind = "array" =>
               /\ prevViolations' = ProcessedViolations
               /\ activeViolations' = ProcessedViolations
               /\ prevViolations = ProcessedViolations =>
                     \A n \in 1..Len(Added) : Added[n].type # "illegal_parking"]_vars

\* An initial fetch has just processed, without a new notification, the
\* snapshot whose transition an earlier handler notified.
C6_Witness ==
    /\ lastOp.op = "topnavInit"
    /\ ~lastOp.threw
    /\ tnInits = 0
    /\ nextId = 2
    /\ backend.slots.kind = "array"
    /\ prevSlots = ProcessedSlots
    /\ SlotIn(prevSlots, "A1")
    /\ MapGet(prevSlots, "A1").isOccupied
    /\ Len(notifications) = 1
    /\ notifications[1].type = "slot_occupied"

\* C8: two polls of the same data source never overlap: Home's, TopNav's
\* (its initial fetch included) and each of LiveFeed's has at most one
\* request in flight.
C8_NoOverlap ==
    /\ homeAwaitStats + Len(homeAwaitSlots) <= 1
    /\ tnPolls + tnInits <= 1
    /\ lfSlotCalls <= 1
    /\ lfViolationCalls <= 1

PollFailed ==
    lastOp'.op \in {"homeStatsFailed", "homeSlotsFailed", "topnavPollFailed", "topnavInitFailed"}

\* C9: a poll whose request fails adds no notification and leaves the
\* previous snapshots, slotStatus, activeViolations and the notifications as
\* they were; whatever fails, each poller's timer fires again and again.
C9_FailedPollChangesNothing ==
    /\ [][PollFailed => UNCHANGED provider]_vars
    /\ []<>(lastOp.op = "homeTick")
    /\ []<>(lastOp.op = "topnavTick")

\* A TopNav poll has failed while a slot event was on the list and a
\* snapshot was held.
C9_Witness ==
    /\ lastOp.op = "topnavPollFailed"
    /\ notifications # <<>>
    /\ prevSlots # EmptyMap
    /\ tnInterval
    /\ ~tnIsPolling

-----------------------------------------------------------------------------
(* The notification list over time *)

InList(list, id) == \E i \in 1..Len(list) : list[i].id = id

\* C11: every notification added is eventually removed without operator
\* action: when its 10 s timer has fired it is absent from the list, and no
\* notification stays in the list forever.
C11_EveryNotificationExpires ==
    /\ [][lastOp'.op = "expire" => ~InList(notifications', lastOp'.id)]_vars
    /\ \A id \in 1..MaxAdds : InList(notifications, id) ~> ~InList(notifications, id)

\* The expiry timer of a notification has just removed it from a list that
\* no banner timer had touched.
C11_Witness ==
    /\ lastOp.op = "expire"
    /\ lastOp.id = 1
    /\ fadeTimers = {}
    /\ Len(notifications) = 2
    /\ nextId = 4

\* A step that called the list's filter for one id: the operator's
\* dismissal, the 10 s expiry, or a banner's 300 ms timer
RemovalStep == lastOp'.op \in {"removeNotification", "expire", "bannerFade"}

\* The list without the notification of the id, the others in their order
RECURSIVE ListWithout(_, _)
ListWithout(list, id) ==
    IF list = <<>> THEN <<>>
    ELSE IF Head(list).id = id THEN ListWithout(Tail(list), id)
         ELSE <<Head(list)>> \o ListWithout(Tail(list), id)

\* C12: removing by id is idempotent: whoever removes, and in whatever order
\* the removers of one notification come, the list afterwards lacks the
\* notification and holds every other one as before; removing an id that is
\* already gone raises no error and changes nothing.
C12_RemoveIsIdempotent ==
    [][RemovalStep =>
         /\ ~lastOp'.threw
         /\ ~InList(notifications', lastOp'.id)
         /\ notifications' = ListWithout(notifications, lastOp'.id)
         /\ ~InList(notifications, lastOp'.id) => notifications' = notifications]_vars

\* A banner's timer has called removeNotification for a notification whose
\* expiry had already removed it, with two other notifications in the list.
C12_Witness ==
    /\ lastOp.op = "bannerFade"
    /\ lastOp.id = 1
    /\ \A i \in 1..Len(timers) : timers[i] # 1
    /\ Len(notifications) = 2

\* C13: a notification leaves the center's list only by an operator's
\* dismissal or by its own 10 s expiry; the banner's 8 s timer does not
\* remove it from the list.
C13_OnlyDismissalOrExpiry ==
    [][\A id \in 1..MaxAdds :
          (InList(notifications, id) /\ ~InList(notifications', id)) =>
              \/ lastOp'.op = "removeNotification"
              \/ lastOp'.op = "expire"
              \/ (lastOp'.op = "bannerFade" /\ lastOp'.by = "operator")]_vars

-----------------------------------------------------------------------------
(* Statistics *)

\* The slots of a snapshot and the occupied ones among them
SlotsOf(status) == {i \in 1..Len(status) : TRUE}

OccupiedOf(status) ==
    {i \in 1..Len(status) : status[i][2] # Null /\ status[i][2].isOccupied}

\* n / d to the nearest tenth, as a number of tenths
NearestTenth(n, d) ==
    CHOOSE t \in 0..1000 :
        /\ 2 * (10 * n - t * d) <= d
        /\ 2 * (10 * n - t * d) > -d

\* C14: getSlotStatistics after a processed snapshot returns the number of
\* slots, of occupied slots, of available slots, and 100 * occupied / total
\* rounded to one decimal; all 0 for the empty mapping; never an error.
C14_StatisticsOfSnapshot ==
    [][lastOp'.op = "getSlotStatistics" =>
         /\ ~lastOp'.threw
         /\ lastOp'.result.total = Cardinality(SlotsOf(slotStatus))
         /\ lastOp'.result.occupied = Cardinality(OccupiedOf(slotStatus))
         /\ lastOp'.result.available =
                Cardinality(SlotsOf(slotStatus)) - Cardinality(OccupiedOf(slotStatus))
         /\ lastOp'.result.occupancyPercentage.tenths =
                IF slotStatus = EmptyMap THEN 0
                ELSE NearestTenth(100 * Cardinality(OccupiedOf(slotStatus)),
                                  Cardinality(SlotsOf(slotStatus)))]_vars

-----------------------------------------------------------------------------
(* The rectangle editor *)

\* A mouseup ended a drag over a loaded image
DragEnded == lastOp'.op = "mouseUp" /\ isDrawing /\ currentRect # Null /\ imageComplete

\* Width and height, in display space, of the rectangle the drag spans
DragWidth ==
    IF currentRect.startX > lastOp'.pos.x THEN currentRect.startX - lastOp'.pos.x
    ELSE lastOp'.pos.x - currentRect.startX

DragHeight ==
    IF currentRect.startY > lastOp'.pos.y THEN currentRect.startY - lastOp'.pos.y
    ELSE lastOp'.pos.y - currentRect.startY

\* C15: on pointerUp a rectangle narrower or lower than 20 px in display
\* space is discarded with no prompt and no change of the store; one that is
\* at least 20 px both ways, exactly 20 px included, leads to the prompt.
C15_TwentyPixelThreshold ==
    [][DragEnded =>
         /\ (DragWidth < 20 \/ DragHeight < 20) =>
                (~lastOp'.prompted /\ UNCHANGED rectangles)
         /\ (DragWidth >= 20 /\ DragHeight >= 20) => lastOp'.prompted]_vars

\* C16: a pointerDown received while the editor is Drawing changes neither
\* the recorded start position nor the rectangle in progress.
C16_PointerDownOnlyWhenIdle ==
    [][(lastOp'.op = "mouseDown" /\ isDrawing) => UNCHANGED currentRect]_vars

\* C17: every pointerUp received while Drawing returns the editor to Idle
\* with no rectangle in progress, whatever the outcome.
C17_PointerUpReturnsToIdle ==
    [][(lastOp'.op = "mouseUp" /\ isDrawing) =>
          (~isDrawing' /\ currentRect' = Null)]_vars

\* A drag has just ended in a commit, and the editor is Idle.
C17_Witness ==
    /\ lastOp.op = "mouseUp"
    /\ lastOp.drawing
    /\ lastOp.prompted
    /\ Accepted(lastOp.id)
    /\ rectangles.illegal # <<>>
    /\ ~isDrawing
    /\ currentRect = Null

\* C18: pointerLeave during Drawing cancels the rectangle in progress: the
\* editor is Idle, nothing is in progress, the store is as it was; and a
\* pointerUp that meets the editor Idle commits nothing.
C18_PointerLeaveCancels ==
    [][/\ (lastOp'.op = "mouseLeave" /\ isDrawing) =>
             (~isDrawing' /\ currentRect' = Null /\ UNCHANGED rectangles)
       /\ (lastOp'.op = "mouseUp" /\ ~isDrawing) =>
             (~lastOp'.prompted /\ UNCHANGED <<rectangles, isDrawing, currentRect>>)]_vars

\* The pointer has just left the canvas in the middle of a drag, with a
\* rectangle already in the store.
C18_Witness ==
    /\ lastOp.op = "mouseLeave"
    /\ lastOp.drawing
    /\ ~isDrawing
    /\ currentRect = Null
    /\ rectangles.slots # <<>>
    /\ imageComplete

\* C19: the rectangle in progress is not in the store before commit:
\* pointerDown and pointerMove leave both collections as they were, and a
\* pointerMove in Idle changes nothing of the editor.
C19_InProgressNotInStore ==
    [][/\ lastOp'.op \in {"mouseDown", "mouseMove"} => UNCHANGED rectangles
       /\ (lastOp'.op = "mouseMove" /\ ~isDrawing) => UNCHANGED calibration]_vars

\* The pointer has just moved during a drag that spans a rectangle, next to
\* a stored one.
C19_Witness ==
    /\ lastOp.op = "mouseMove"
    /\ isDrawing
    /\ currentRect # Null
    /\ currentRect.endX - currentRect.startX = 21
    /\ currentRect.endY - currentRect.startY = 21
    /\ rectangles.slots # <<>>

\* An id as the store may hold it: not empty, no blank at either end
WellFormedId(id) ==
    /\ id # <<>>
    /\ Head(id) \notin Whitespace
    /\ id[Len(id)] \notin Whitespace

AllRects(rects) ==
    {rects.slots[i] : i \in 1..Len(rects.slots)}
        \cup {rects.illegal[i] : i \in 1..Len(rects.illegal)}

\* What the operator answered stands for no id: the prompt was cancelled,
\* left empty, or filled with blanks only
NoId(id) == id = Null \/ \A i \in 1..Len(id.chars) : id.chars[i] \in Whitespace

\* C20: a commit whose prompt is cancelled, empty or blank leaves both
\* collections as they were and sends no request; an accepted id is stored
\* trimmed, so the store never holds an empty or untrimmed id.
C20_IdValidatedLocally ==
    [][lastOp'.op = "mouseUp" =>
         /\ UNCHANGED <<isSaving, saveCalls>>
         /\ (lastOp'.prompted /\ NoId(lastOp'.id)) => UNCHANGED rectangles
         /\ \A r \in AllRects(rectangles') : WellFormedId(r.id)]_vars

\* The operator has typed an id with blanks around it and it is in the
\* store without them.
C20_Witness ==
    /\ lastOp.op = "mouseUp"
    /\ lastOp.prompted
    /\ lastOp.id = [kind |-> "string", chars |-> <<" ", "S", "1", " ">>]
    /\ rectangles.slots # <<>>
    /\ rectangles.slots[Len(rectangles.slots)].id = <<"S", "1">>

-----------------------------------------------------------------------------
(* The store of rectangles *)

Last(list) == list[Len(list)]

OtherMode == IF mode = "slots" THEN "illegal" ELSE "slots"

\* A mouseup has just put a rectangle into the store
Committed == lastOp'.op = "mouseUp" /\ lastOp'.prompted /\ Accepted(lastOp'.id)

UniqueIds(list) ==
    \A i, j \in 1..Len(list) : list[i].id = list[j].id => i = j

\* C21: each collection holds at most one rectangle per id: a rectangle
\* added under an id that the collection of the current mode already holds
\* takes the place of the one that was there, and the other collection is
\* as it was, whatever ids it holds.
C21_OneRectanglePerId ==
    [][Committed =>
         /\ UniqueIds(rectangles'.slots)
         /\ UniqueIds(rectangles'.illegal)
         /\ Last(rectangles'[mode]).id = Trim(lastOp'.id.chars)
         /\ rectangles'[OtherMode] = rectangles[OtherMode]]_vars

\* C22: a declined delete leaves both collections as they were; a confirmed
\* delete takes the chosen rectangle out of the collection of the current
\* mode and leaves the others, in their order, and the other collection as
\* they were; deleting at a position that holds nothing changes nothing.
C22_DeleteAfterConfirmation ==
    [][lastOp'.op = "handleDelete" =>
         LET before == rectangles[mode]
             after  == rectangles'[mode]
             index  == lastOp'.index
         IN /\ rectangles'[OtherMode] = rectangles[OtherMode]
            /\ ~lastOp'.confirmed => after = before
            /\ lastOp'.confirmed =>
                  /\ Len(after) = Len(before) - 1
                  /\ \A i \in 1..Len(after) :
                        after[i] = IF i < index THEN before[i] ELSE before[i + 1]
            /\ \A absent \in {0, Len(before) + 1, Len(before) + 2} :
                  DeleteAt(before, absent) = before]_vars

\* The first of two zones has just been deleted and the second is left.
C22_Witness ==
    /\ lastOp.op = "handleDelete"
    /\ lastOp.confirmed
    /\ lastOp.index = 1
    /\ mode = "illegal"
    /\ Len(rectangles.illegal) = 1

-----------------------------------------------------------------------------
(* Loading and saving the calibration *)

Zero == Whole(0)

\* A tuple of exactly 4 numbers with x2 > x1 and y2 > y1
ValidTuple(coords) ==
    /\ coords.kind = "array"
    /\ Len(coords.items) = 4
    /\ \A i \in 1..4 : IsNum(coords.items[i])
    /\ Greater(coords.items[3], coords.items[1])
    /\ Greater(coords.items[4], coords.items[2])

\* {id, x: x1, y: y1, width: x2 - x1, height: y2 - y1} of every valid entry
RECURSIVE ValidRects(_)
ValidRects(entries) ==
    IF entries = <<>> THEN <<>>
    ELSE LET id == Head(entries)[1]
             t  == Head(entries)[2]
         IN (IF ValidTuple(t)
             THEN << [id |-> id, x |-> t.items[1], y |-> t.items[2],
                      width |-> Minus(t.items[3], t.items[1]),
                      height |-> Minus(t.items[4], t.items[2])] >>
             ELSE <<>>) \o ValidRects(Tail(entries))

Loaded == lastOp'.op = "loadCalibration" /\ HasCollections(lastOp'.data)

\* C23: after a load every rectangle of the store has width > 0 and
\* height > 0: the entries that are not 4 numbers with x2 > x1 and y2 > y1
\* are dropped, the valid entries of the same payload are loaded as
\* {x: x1, y: y1, width: x2 - x1, height: y2 - y1}.
C23_LoadKeepsValidEntriesOnly ==
    [][Loaded =>
         /\ rectangles'.slots = ValidRects(lastOp'.data.parking_slots.entries)
         /\ rectangles'.illegal = ValidRects(lastOp'.data.illegal_zones.entries)
         /\ \A r \in AllRects(rectangles') :
               Greater(r.width, Zero) /\ Greater(r.height, Zero)]_vars

\* Every tuple of the payload is valid and made of integers
ValidCalibration(data) ==
    /\ HasCollections(data)
    /\ \A c \in {data.parking_slots, data.illegal_zones} :
          \A i \in 1..Len(c.entries) :
             /\ ValidTuple(c.entries[i][2])
             /\ \A k \in 1..4 : c.entries[i][2].items[k].d = 1

\* The object submitted maps the ids of the entries to their tuples
SameMapping(object, entries) ==
    /\ MapKeys(object) = MapKeys(entries)
    /\ \A k \in MapKeys(entries) : MapGet(object, k) = MapGet(entries, k).items

\* C24: a save that follows the load of a calibration of valid integer
\* corners, with no edit in between, submits for both collections the
\* id -> [x1, y1, x2, y2] mappings that were loaded.
C24_LoadThenSaveIsIdentity ==
    [][(lastOp.op = "loadCalibration" /\ ValidCalibration(lastOp.data)
            /\ lastOp'.op = "handleSave") =>
          /\ SameMapping(lastOp'.body.parking_slots, lastOp.data.parking_slots.entries)
          /\ SameMapping(lastOp'.body.illegal_zones, lastOp.data.illegal_zones.entries)]_vars

\* A save has just submitted two slots and a zone with the corners that the
\* backend held.
C24_Witness ==
    /\ lastOp.op = "handleSave"
    /\ lastOp.body.parking_slots =
          << << <<"S", "1">>, <<Whole(1), Whole(2), Whole(4), Whole(6)>> >>,
             << <<"S", "2">>, <<Whole(0), Whole(0), Whole(2), Whole(3)>> >> >>
    /\ lastOp.body.illegal_zones =
          << << <<"S", "1">>, <<Whole(0), Whole(0), Whole(2), Whole(3)>> >> >>
    /\ ~loadPending

\* m is round(v): the integer with v - 1/2 < m <= v + 1/2
IsRounded(m, v) ==
    /\ IsNum(m) /\ IsNum(v) /\ m.d = 1
    /\ 2 * v.n - v.d < 2 * m.n * v.d
    /\ 2 * m.n * v.d <= 2 * v.n + v.d

\* The tuple is [round(x), round(y), round(x + width), round(y + height)]
IsRoundedTuple(t, r) ==
    /\ Len(t) = 4
    /\ IsRounded(t[1], r.x)
    /\ IsRounded(t[2], r.y)
    /\ IsRounded(t[3], Plus(r.x, r.width))
    /\ IsRounded(t[4], Plus(r.y, r.height))

\* The rectangle that a collection holds last under an id
LastWithId(list, id) ==
    list[CHOOSE i \in 1..Len(list) :
            /\ list[i].id = id
            /\ \A j \in (i + 1)..Len(list) : list[j].id # id]

\* The object holds, under every id of the collection and no other, the
\* tuple of the rectangle written under it
IsSerialized(object, list) ==
    /\ MapKeys(object) = {list[i].id : i \in 1..Len(list)}
    /\ \A id \in MapKeys(object) : IsRoundedTuple(MapGet(object, id), LastWithId(list, id))

\* m is within 1 pixel of the canvas coordinate c taken to image
\* coordinates, c * size / canvasSize
WithinOnePixel(m, c, size, canvasSize) ==
    Abs(m.n * canvasSize - c * size) <= canvasSize

C26_ScaleRoundTrip ==
    /\ [](\A r \in AllRects(rectangles), nat \in NaturalSizes :
             LET shown == ToDisplay(r, nat)
                 back  == ToNativeScale(nat)
             IN /\ Times(shown.x, back.x) = r.x
                /\ Times(shown.y, back.y) = r.y
                /\ Times(shown.width, back.x) = r.width
                /\ Times(shown.height, back.y) = r.height)
    /\ [][Committed =>
            LET c == CanvasCorners(currentRect, lastOp'.pos)
            IN Last(drawCanvas(rectangles', mode, imageComplete, natural)) =
                  [id |-> Trim(lastOp'.id.chars),
                   x |-> Whole(c.x1), y |-> Whole(c.y1),
                   width |-> Whole(c.x2 - c.x1),
                   height |-> Whole(c.y2 - c.y1)]]_vars

\* A rectangle 21 px wide has just been committed over an image of natural
\* width 60 on a canvas of width 40: it is stored 31.5 wide.
C26_Witness ==
    /\ lastOp.op = "mouseUp"
    /\ lastOp.prompted
    /\ Accepted(lastOp.id)
    /\ natural.w = 60
    /\ rectangles[mode] # <<>>
    /\ Last(rectangles[mode]).width = Num(63, 2)
    /\ Last(drawCanvas(rectangles, mode, imageComplete, natural)).width = Whole(21)

Settled == lastOp'.op \in {"saved", "saveFailed"}

C28_SaveLeavesStore ==
    [][/\ (lastOp'.op = "handleSave" \/ Settled) => UNCHANGED rectangles
       /\ lastOp'.op = "saveFailed" => (lastOp'.alert /\ ~saveSuccess')
       /\ lastOp'.op = "saved" => (~lastOp'.alert /\ saveSuccess')]_vars

\* A save has just failed, after an earlier one succeeded whose message has
\* not timed out yet, with a rectangle in the store.
C28_Witness ==
    /\ lastOp.op = "saveFailed"
    /\ lastOp.alert
    /\ saveCalls = 2
    /\ successTimers = 1
    /\ ~saveSuccess
    /\ StoreSize > 0

-----------------------------------------------------------------------------
(* The live overlay *)

\* GET /slots reports the slot as occupied, by status or by isOccupied
ReportedOccupied(slot) == slot.status = "occupied" \/ slot.isOccupied = "true"

\* The element of the answer that reports on the slot
ReportsOn(slot, slotId) == slot # Null /\ JsOr(slot.slotId, slot.id) = slotId

\* C29: a calibrated slot that the answer of GET /slots reports as occupied
\* is drawn in the occupied colour with the occupied marker, and one that it
\* reports as free in the available colour with the available marker.
C29_OverlayShowsOccupancy ==
    [][(lastOp'.op = "liveFeedSlots" /\ lfMounted /\ backend.slots.kind = "array") =>
         \A i \in 1..Len(Overlay'.slots), k \in 1..Len(backend.slots.items) :
            LET slot == backend.slots.items[k]
                seen == Overlay'.slots[i]
            IN ReportsOn(slot, seen.id) =>
                  IF ReportedOccupied(slot)
                  THEN seen.color = "yellow" /\ seen.marker = "P"
                  ELSE seen.color = "green" /\ seen.marker = "check"]_vars

\* Some violation of the list has the zone id as its zone or within it
ViolationIn(zoneId) ==
    \E k \in 1..Len(lfActiveViolations.items) :
        LET v == lfActiveViolations.items[k]
        IN v # Null /\ (v.zone = zoneId \/ Includes(v.zone, zoneId))

\* C30: every illegal zone is drawn; it is drawn in the violation colour
\* with the violation suffix exactly when a violation of the current list
\* has a zone that is or contains the zone id, and in the base colour with
\* no suffix otherwise.
C30_ZoneElevatedOnViolation ==
    lfIllegalZones # Null =>
        /\ Len(Overlay.zones) = Len(lfIllegalZones.entries)
        /\ \A i \in 1..Len(Overlay.zones) :
              LET zoneId == lfIllegalZones.entries[i][1]
              IN Overlay.zones[i] =
                    IF ViolationIn(zoneId)
                    THEN [id |-> zoneId, color |-> "red", suffix |-> " [VIOLATION]"]
                    ELSE [id |-> zoneId, color |-> "orange", suffix |-> ""]

-----------------------------------------------------------------------------
(* The canvases and the natural size of their images *)

NoNaturalSize(nat) == nat.w = 0 \/ nat.h = 0

\* C31: while the natural width or height of its image is 0, neither the
\* calibration canvas nor the live overlay shows a rectangle
C31_NoDrawWithoutNaturalSize ==
    /\ NoNaturalSize(natural) =>
           drawCanvas(rectangles, mode, imageComplete, natural) = <<>>
    /\ NoNaturalSize(lfNatural) =>
           (OverlaySlotRects = <<>> /\ OverlayZoneRects = <<>>)

-----------------------------------------------------------------------------
(* Timers and teardown *)

\* C32: a 300 ms timer of a banner calls onDismiss only while the banner is
\* mounted, and the 3 s timer of the success message fires only while the
\* Calibration page is mounted
C32_TimersCancelledOnTeardown ==
    /\ [][lastOp'.op = "bannerFade" => lastOp'.id \in BannerIds(notifications)]_vars
    /\ [][lastOp'.op = "successTimer" => calMounted]_vars

-----------------------------------------------------------------------------
(* Plates *)

\* "GOVT" or "ROYAL" is in the plate, in whatever case
IsGovernmentPlate(plate) ==
    \E word \in { <<"G", "O", "V", "T">>, <<"R", "O", "Y", "A", "L">> } :
        \E from \in 1..Len(plate) :
            /\ from + Len(word) - 1 <= Len(plate)
            /\ \A k \in 1..Len(word) :
                   plate[from + k - 1] \in {word[k], CHOOSE c \in {"g", "o", "v", "t", "r", "y", "a", "l"} : UpperChar(c) = word[k]}

ViewNames == {"imem", "table", "card", "center", "message", "slotCard"}

\* C33: every view shows "***ANONYMIZED***" for a plate with "GOVT" or
\* "ROYAL" in it, in whatever case, and shows any other plate that is not
\* empty as it is
C33_GovernmentPlatesMasked ==
    [][lastOp'.op = "renderPlate" =>
         \A view \in ViewNames :
            /\ IsGovernmentPlate(lastOp'.plate) => lastOp'.views[view] = Anonymized
            /\ (~IsGovernmentPlate(lastOp'.plate) /\ lastOp'.plate # <<>>) =>
                   lastOp'.views[view] = lastOp'.plate]_vars

-----------------------------------------------------------------------------
(* TopNav's poll cycle *)

\* C34: a firing of the 30 s timer sends the two requests of one poll and
\* nothing else, and no initialFetch starts after the one of the mount: the
\* diffs run once per poll cycle
C34_OneDiffPerPollCycle ==
    /\ [][lastOp'.op = "topnavTick" => (tnPolls' = tnPolls + 1 /\ tnInits' = tnInits)]_vars
    /\ [][tnInits' <= tnInits]_vars

\* C35: an initialFetch that settles adds no notification, whatever the
\* backend reports, and leaves the snapshots it read as the previous ones
C35_InitialFetchOnlyInitializes ==
    [][lastOp'.op = "topnavInit" =>
         /\ Added = <<>>
         /\ ~lastOp'.threw =>
               /\ backend.slots.kind = "array" => prevSlots' = ProcessedSlots
               /\ backend.violations.kind = "array" =>
                      prevViolations' = ProcessedViolations]_vars

-----------------------------------------------------------------------------
(* The snapshots from one poll to the next *)

\* The slot ids of the payload that GET /slots serves
PayloadIds ==
    { JsOr(backend.slots.items[i].id, backend.slots.items[i].slotId) :
        i \in 1..Len(backend.slots.items) }

C37_NoNotificationWhileConstant ==
    notifications = <<>> /\ nextId = 1

-----------------------------------------------------------------------------
(* Home's banners *)

\* The banners a step appended to Home's list
AppendedBanners == SubSeq(homeBanners', Len(homeBanners) + 1, Len(homeBanners'))

BannersAbout(type, about) ==
    Cardinality({i \in 1..Len(AppendedBanners) :
                    AppendedBanners[i] = [type |-> type, about |-> about]})

OneIf(cond) == IF cond THEN 1 ELSE 0

\* C38: a poll of Home that gets its stats after an earlier one did appends
\* to Home's banners, for the stats then and the stats now: a 'warning' when
\* the occupancy rose above 85, an 'illegal_parking' when it rose above 95, a
\* 'success' when it fell to 85 or below, one banner when the number of
\* active violations rose and one when it fell; and nothing else
C38_BannerOnThresholdCrossing ==
    [][(lastOp'.op = "homeStats" /\ homeMounted /\ homePreviousStats # Null) =>
         LET was == homePreviousStats
             is  == backend.stats
         IN /\ SubSeq(homeBanners', 1, Len(homeBanners)) = homeBanners
            /\ BannersAbout("warning", "high occupancy") =
                   OneIf(is.occupancy > 85 /\ was.occupancy <= 85)
            /\ BannersAbout("illegal_parking", "critical occupancy") =
                   OneIf(is.occupancy > 95 /\ was.occupancy <= 95)
            /\ BannersAbout("success", "occupancy normalized") =
                   OneIf(is.occupancy <= 85 /\ was.occupancy > 85)
            /\ BannersAbout("illegal_parking", "new violations") =
                   OneIf(is.activeViolations > was.activeViolations)
            /\ BannersAbout("success", "violations resolved") =
                   OneIf(is.activeViolations < was.activeViolations)
            /\ Len(AppendedBanners) =
                   BannersAbout("warning", "high occupancy")
                   + BannersAbout("illegal_parking", "critical occupancy")
                   + BannersAbout("success", "occupancy normalized")
                   + BannersAbout("illegal_parking", "new violations")
                   + BannersAbout("success", "violations resolved")]_vars

-----------------------------------------------------------------------------
(* The store while the calibration is on its way *)

\* C39: the arrival of the stored calibration discards no rectangle that
\* the operator has committed: each one is in its collection afterwards
C39_LoadKeepsCommitted ==
    [][lastOp'.op = "loadCalibration" =>
         \A m \in {"slots", "illegal"} :
            \A i \in 1..Len(rectangles[m]) :
               \E j \in 1..Len(rectangles'[m]) :
                  rectangles'[m][j] = rectangles[m][i]]_vars

=============================================================================
